---- MODULE Spec2Model ----
(***************************************************************************)
(* Review-session engine of tana-auto-tagger: the TelegramSession object,  *)
(* the SessionManager registry (two indices), and the handlers that drive  *)
(* them (bot commands and callbacks, HTTP session endpoints, the           *)
(* background sync task).                                                  *)
(*                                                                         *)
(* Time is counted in clock ticks.  The handlers are coroutines on one     *)
(* event loop: a handler runs without interleaving from one await to the   *)
(* next; the variable loop names the coroutine that is between two awaits. *)
(* The clock may advance at any point.  A session object that is neither   *)
(* registered nor referenced by a coroutine is garbage and is collected.   *)
(***************************************************************************)
EXTENDS Integers, Sequences, FiniteSets, TLC

\* ------------------------------------------------------------------ bounds
\* number of sessions ever created (uuid4 values drawn)
MaxSessions == 2
\* last clock tick
MaxTime == 2
\* timedelta(minutes=30), scaled: one tick is 30 minutes
TTL == 1

Users == {"u1", "u2"}
\* config.telegram_allowed_username: the one user the bot accepts
AllowedUsers == {"u1"}
NoteIds == {"n1", "n2"}
\* what load_notes() can return (lists of note ids, unique within a batch)
NoteLists == {<<>>, <<"n1", "n2">>}
\* what classifier.classify can return for a note (tag ids, best first)
SuggestionLists == {<<>>, <<"t2", "t1">>}
DateRanges == {"d1"}

\* Optional[...] None for a session reference
NoSession == 0

VARIABLES
    now,              \* datetime.now()
    heap,             \* the TelegramSession objects ever constructed, by session_id
    session_manager,  \* the global SessionManager: [sessions, user_sessions]
    tasks,            \* per session: the coroutine started for it and where it is
    loop,             \* the coroutine running between two awaits, or Idle
    callers,          \* threads inside SessionManager methods (SpecThreads only)
    unit,             \* an object exercised on its own (SpecApprove, SpecClassify)
    last              \* the last operation and what it returned

vars == <<now, heap, session_manager, tasks, loop, callers, unit, last>>

SessionIds == DOMAIN heap
Idle == [co |-> "idle", sid |-> NoSession]

\* ------------------------------------------------------------ dictionaries
EmptyDict == [k \in {} |-> k]
DictSet(d, k, v) == [x \in (DOMAIN d) \union {k} |-> IF x = k THEN v ELSE d[x]]
DictDel(d, k) == [x \in (DOMAIN d) \ {k} |-> d[x]]
DictGet(d, k, default) == IF k \in DOMAIN d THEN d[k] ELSE default

\* --------------------------------------------------------- TelegramSession
\* the dataclass constructor and __post_init__: created_at and updated_at
\* are two reads of the clock (tc, then tu); expires_at is set from created_at.
\* created_at itself is never read again and is not kept.
TelegramSession(user_id, session_id, tc, tu) ==
    [user_id |-> user_id, state |-> "idle", date_range |-> "None",
     notes |-> <<>>, suggestions |-> EmptyDict, approved |-> EmptyDict,
     message_id |-> "None", session_id |-> session_id,
     updated_at |-> tu, expires_at |-> tc + TTL]

touch(s, t) == [s EXCEPT !.updated_at = t, !.expires_at = t + TTL]

is_expired(s, t) == t > s.expires_at

set_state(s, state, t) == touch([s EXCEPT !.state = state], t)

\* approve_suggestion that keeps a label the note already has
approve_suggestion_first_wins(s, note_id, tag_id, t) ==
    touch([s EXCEPT !.approved =
              IF note_id \in DOMAIN s.approved THEN s.approved
              ELSE DictSet(s.approved, note_id, tag_id)], t)

approve_suggestion(s, note_id, tag_id, t) ==
    touch([s EXCEPT !.approved = DictSet(s.approved, note_id, tag_id)], t)

\* unapprove_note that leaves the approved dict alone
unapprove_note_keeps(s, note_id, t) == touch(s, t)

unapprove_note(s, note_id, t) ==
    touch([s EXCEPT !.approved = DictDel(s.approved, note_id)], t)

is_approved(s, note_id) == note_id \in DOMAIN s.approved

get_approved_count(s) == Cardinality(DOMAIN s.approved)

\* ---------------------------------------------------------- SessionManager
SessionManagerInit == [sessions |-> {}, user_sessions |-> [u \in Users |-> NoSession]]

\* delete_session that leaves the user index alone
delete_session_keeps_user_index(m, sid) ==
    [m EXCEPT !.sessions = m.sessions \ {sid}]

delete_session(m, sid) ==
    IF sid \in m.sessions
    THEN [sessions |-> m.sessions \ {sid},
          user_sessions |->
              [u \in Users |->
                  IF u = heap[sid].user_id /\ m.user_sessions[u] = sid
                  THEN NoSession ELSE m.user_sessions[u]]]
    ELSE m

\* delete_session that reports success whatever it found
delete_session_result_always(m, sid) == TRUE

\* the value delete_session returns
delete_session_result(m, sid) == sid \in m.sessions

RECURSIVE delete_each(_, _)
delete_each(m, sids) ==
    IF sids = {} THEN m
    ELSE LET sid == CHOOSE x \in sids : TRUE
         IN delete_each(delete_session(m, sid), sids \ {sid})

cleanup_user_sessions(m, user_id) ==
    LET to_delete == {sid \in m.sessions : heap[sid].user_id = user_id}
        m1 == delete_each(m, to_delete)
    IN [m1 EXCEPT !.user_sessions[user_id] = NoSession]

\* create_session without the cleanup of the user's earlier sessions
create_session_no_cleanup(m, user_id, sid) ==
    [sessions |-> m.sessions \union {sid},
     user_sessions |-> [m.user_sessions EXCEPT ![user_id] = sid]]

\* create_session that first drops the sessions of every user
create_session_drops_all(m, user_id, sid) ==
    [sessions |-> {sid},
     user_sessions |-> [u \in Users |-> IF u = user_id THEN sid ELSE NoSession]]

\* registers the freshly constructed session sid for user_id
create_session(m, user_id, sid) ==
    LET m1 == cleanup_user_sessions(m, user_id)
    IN [sessions |-> m1.sessions \union {sid},
        user_sessions |-> [m1.user_sessions EXCEPT ![user_id] = sid]]

\* get_session without the expiry check
get_session_no_expiry(m, sid, t) ==
    [m |-> m, ret |-> IF sid \in m.sessions THEN sid ELSE NoSession]

\* [m: the manager afterwards, ret: the session returned or NoSession]
get_session(m, sid, t) ==
    IF sid \in m.sessions /\ is_expired(heap[sid], t)
    THEN [m |-> delete_session(m, sid), ret |-> NoSession]
    ELSE [m |-> m, ret |-> IF sid \in m.sessions THEN sid ELSE NoSession]

get_user_session(m, user_id, t) ==
    LET session_id == m.user_sessions[user_id]
    IN IF session_id = NoSession
       THEN [m |-> m, ret |-> NoSession]
       ELSE get_session(m, session_id, t)

\* cleanup_expired that already removes a session at its expiry time
cleanup_expired_at_deadline(m, t) ==
    LET expired == {sid \in m.sessions : t >= heap[sid].expires_at}
    IN [m |-> delete_each(m, expired), ret |-> Cardinality(expired)]

\* [m: the manager afterwards, ret: the number removed]
cleanup_expired(m, t) ==
    LET expired == {sid \in m.sessions : is_expired(heap[sid], t)}
    IN [m |-> delete_each(m, expired), ret |-> Cardinality(expired)]

States == {"idle", "syncing", "classifying", "reviewing", "applying"}

\* get_stats without the sweep
get_stats_no_sweep(m, t) ==
    [m |-> m,
     ret |-> [total_sessions |-> Cardinality(m.sessions),
              unique_users |->
                  Cardinality({u \in Users : m.user_sessions[u] # NoSession}),
              by_state |->
                  [st \in {heap[sid].state : sid \in m.sessions} |->
                      Cardinality({sid \in m.sessions : heap[sid].state = st})]]]

\* [m: the manager afterwards, ret: the statistics]
get_stats(m, t) ==
    LET m1 == cleanup_expired(m, t).m
    IN [m |-> m1,
        ret |-> [total_sessions |-> Cardinality(m1.sessions),
                 unique_users |->
                     Cardinality({u \in Users : m1.user_sessions[u] # NoSession}),
                 by_state |->
                     [st \in {heap[sid].state : sid \in m1.sessions} |->
                         Cardinality({sid \in m1.sessions : heap[sid].state = st})]]]

\* ------------------------------------------------------------------- ghost
\* the last operation: its kind, the session it was about, the session
\* returned; for cleanup_expired the number it returned (removed), for
\* get_stats the dict it returned (stats)
NoStats == [total_sessions |-> 0, unique_users |-> 0, by_state |-> EmptyDict]
Op(op, sid, ret) ==
    [op |-> op, sid |-> sid, ret |-> ret, removed |-> 0, stats |-> NoStats]
NoOp == Op("none", NoSession, NoSession)

Task(co, pc, idx) == [co |-> co, pc |-> pc, idx |-> idx]

\* ------------------------------------------------------- garbage collection
\* coroutine positions at which the coroutine holds a reference to its session
HoldingPcs == {"created", "reply", "sync_all", "classify"}

Collected(s) ==
    [TelegramSession(s.user_id, s.session_id, 0, 0) EXCEPT !.state = "collected"]

Collect(h, m, t, l) ==
    [sid \in DOMAIN h |->
        IF sid \in m.sessions \/ t[sid].pc \in HoldingPcs \/ l.sid = sid
        THEN h[sid] ELSE Collected(h[sid])]

\* the state after a step: objects h, manager m, coroutines t, event loop l
Commit(h, m, t, l) ==
    /\ session_manager' = m
    /\ tasks' = t
    /\ loop' = l
    /\ heap' = Collect(h, m, t, l)
    /\ callers' = callers
    /\ unit' = unit

Callers == {"a", "b"}

\* a caller: where it is (pc), the call it makes or made last (op, user, sid),
\* its local variables (to_delete, session), where delete_session returns to
\* (ret_to), what the call returned or raised (result), the calls it has made
Caller(pc, op, user, sid, to_delete, session, ret_to, result, calls) ==
    [pc |-> pc, op |-> op, user |-> user, sid |-> sid, to_delete |-> to_delete,
     session |-> session, ret_to |-> ret_to, result |-> result, calls |-> calls]

EngineInit ==
    /\ callers = [c \in Callers |->
                     Caller("idle", "none", "none", NoSession, {}, NoSession,
                            "idle", "none", 0)]
    /\ now = 0
    /\ heap = <<>>
    /\ session_manager = SessionManagerInit
    /\ tasks = <<>>
    /\ loop = Idle
    /\ last = NoOp

\* no object is exercised on its own
NoUnit == [kind |-> "none"]

Init == EngineInit /\ unit = NoUnit

is_authorized(user) == user \in AllowedUsers

\* the clock advances
Tick ==
    /\ now < MaxTime
    /\ now' = now + 1
    /\ last' = NoOp
    /\ UNCHANGED <<heap, session_manager, tasks, loop, callers, unit>>

\* ------------------------------------------------- starting a review cycle
\* session_manager.create_session(user_id, username): construct the session
\* (two clock reads, gap ticks apart) and register it
CreateStep(user, co) ==
    /\ loop = Idle
    /\ Len(heap) < MaxSessions
    /\ \E gap \in {0, 1} :
        LET sid == Len(heap) + 1 IN
        /\ now + gap <= MaxTime
        /\ now' = now + gap
        /\ Commit(Append(heap, TelegramSession(user, sid, now, now + gap)),
                  create_session(session_manager, user, sid),
                  Append(tasks, Task(co, "created", 0)),
                  [co |-> co, sid |-> sid])
        /\ last' = Op("create", sid, sid)

\* session.date_range = (...); session.set_state(SessionState.SYNCING); then
\* the handler returns or awaits (pc: where its coroutine goes on later)
StartStep(co, pc) ==
    /\ loop.co = co
    /\ tasks[loop.sid].pc = "created"
    /\ \E d \in DateRanges :
        Commit([heap EXCEPT ![loop.sid] =
                   set_state([@ EXCEPT !.date_range = d], "syncing", now)],
               session_manager,
               [tasks EXCEPT ![loop.sid].pc = pc],
               Idle)
    /\ last' = Op("set_state", loop.sid, NoSession)
    /\ now' = now

\* POST /telegram/sync, up to create_session (no allow-list check here)
HttpSyncCreate(user) == CreateStep(user, "http_sync")

\* POST /telegram/sync, the rest: the background task is scheduled
HttpSyncStart == StartStep("http_sync", "scheduled")

\* /sync of an authorized user with a date range that parses
BotSyncCreate(user) == is_authorized(user) /\ CreateStep(user, "bot_sync")

\* /sync, the rest, up to await update.message.reply_text(...)
BotSyncStart == StartStep("bot_sync", "reply")

\* /sync after the reply was sent: session.message_id = message.message_id
BotSyncReplied(sid) ==
    /\ loop = Idle
    /\ sid \in SessionIds
    /\ tasks[sid].pc = "reply"
    /\ Commit([heap EXCEPT ![sid].message_id = "set"],
              session_manager,
              [tasks EXCEPT ![sid].pc = "done"],
              loop)
    /\ last' = Op("message_id", sid, NoSession)
    /\ now' = now

\* a request that returns before it touches the registry: a bot command or
\* callback of a user is_authorized rejects, /sync or POST /telegram/sync
\* with a date text parse_date_range rejects
Rejected(user) ==
    /\ loop = Idle
    /\ last' = NoOp
    /\ UNCHANGED <<now, heap, session_manager, tasks, loop, callers, unit>>

\* ------------------------------------------------------ _process_telegram_sync
\* session = session_manager.get_session(session_id); then await sync_all
BgStart(sid) ==
    /\ loop = Idle
    /\ sid \in SessionIds
    /\ tasks[sid].pc = "scheduled"
    /\ LET g == get_session(session_manager, sid, now) IN
        /\ Commit(heap, g.m,
                  [tasks EXCEPT ![sid].pc =
                      IF g.ret = NoSession THEN "done" ELSE "sync_all"],
                  loop)
        /\ last' = Op("get_session", sid, g.ret)
    /\ now' = now

\* sync_all or load_tags/load_notes raised, or load_notes returned no notes:
\* session.set_state(SessionState.IDLE)
BgNoNotes(sid) ==
    /\ loop = Idle
    /\ sid \in SessionIds
    /\ tasks[sid].pc = "sync_all"
    /\ Commit([heap EXCEPT ![sid] = set_state(@, "idle", now)],
              session_manager,
              [tasks EXCEPT ![sid].pc = "done"],
              loop)
    /\ last' = Op("set_state", sid, NoSession)
    /\ now' = now

\* BgLoaded that also stores the session back under its identifier
BgLoadedSaves(sid) ==
    /\ loop = Idle
    /\ sid \in SessionIds
    /\ tasks[sid].pc = "sync_all"
    /\ \E notes \in NoteLists \ {<<>>} :
        Commit([heap EXCEPT ![sid] =
                   set_state([@ EXCEPT !.notes = notes], "classifying", now)],
               [session_manager EXCEPT !.sessions = @ \union {sid}],
               [tasks EXCEPT ![sid] = Task("http_sync", "classify", 1)],
               [co |-> "bg", sid |-> sid])
    /\ last' = Op("set_state", sid, NoSession)
    /\ now' = now

\* session.notes = notes; session.set_state(SessionState.CLASSIFYING)
BgLoaded(sid) ==
    /\ loop = Idle
    /\ sid \in SessionIds
    /\ tasks[sid].pc = "sync_all"
    /\ \E notes \in NoteLists \ {<<>>} :
        Commit([heap EXCEPT ![sid] =
                   set_state([@ EXCEPT !.notes = notes], "classifying", now)],
               session_manager,
               [tasks EXCEPT ![sid] = Task("http_sync", "classify", 1)],
               [co |-> "bg", sid |-> sid])
    /\ last' = Op("set_state", sid, NoSession)
    /\ now' = now

\* BgClassifyNote that moves on to the next note without storing anything
BgClassifyNoteSkips ==
    /\ loop.co = "bg"
    /\ LET sid == loop.sid
           idx == tasks[sid].idx IN
        /\ idx <= Len(heap[sid].notes)
        /\ Commit(heap, session_manager, [tasks EXCEPT ![sid].idx = idx + 1], loop)
        /\ last' = Op("suggestions", sid, NoSession)
    /\ now' = now

\* one turn of the loop: session.suggestions[note.id] = classifier.classify(...)
BgClassifyNote ==
    /\ loop.co = "bg"
    /\ LET sid == loop.sid
           idx == tasks[sid].idx IN
        /\ idx <= Len(heap[sid].notes)
        /\ \E suggestions \in SuggestionLists :
            Commit([heap EXCEPT ![sid].suggestions =
                       DictSet(@, heap[sid].notes[idx], suggestions)],
                   session_manager,
                   [tasks EXCEPT ![sid].idx = idx + 1],
                   loop)
        /\ last' = Op("suggestions", sid, NoSession)
    /\ now' = now

\* classifier.load_tags or classifier.classify raised: the except branch,
\* session.set_state(SessionState.IDLE)
BgClassifyFailed ==
    /\ loop.co = "bg"
    /\ LET sid == loop.sid IN
        /\ tasks[sid].idx <= Len(heap[sid].notes)
        /\ Commit([heap EXCEPT ![sid] = set_state(@, "idle", now)],
                  session_manager,
                  [tasks EXCEPT ![sid] = Task("http_sync", "done", 0)],
                  Idle)
        /\ last' = Op("set_state", sid, NoSession)
    /\ now' = now

\* after the loop: session.set_state(SessionState.REVIEWING)
BgReviewing ==
    /\ loop.co = "bg"
    /\ LET sid == loop.sid IN
        /\ tasks[sid].idx > Len(heap[sid].notes)
        /\ Commit([heap EXCEPT ![sid] = set_state(@, "reviewing", now)],
                  session_manager,
                  [tasks EXCEPT ![sid] = Task("http_sync", "done", 0)],
                  Idle)
        /\ last' = Op("set_state", sid, NoSession)
    /\ now' = now

\* ------------------------------------------------------------ bot handlers
\* /status; also the callbacks "noop" and "page:<n>", which only read
BotStatus(user) ==
    /\ loop = Idle
    /\ is_authorized(user)
    /\ LET g == get_user_session(session_manager, user, now) IN
        /\ Commit(heap, g.m, tasks, loop)
        /\ last' = Op("get_user_session", session_manager.user_sessions[user], g.ret)
    /\ now' = now

\* /cancel, and the callback "cancel": get_user_session, then delete_session
BotCancel(user) ==
    /\ loop = Idle
    /\ is_authorized(user)
    /\ LET g == get_user_session(session_manager, user, now) IN
        /\ Commit(heap,
                  IF g.ret = NoSession THEN g.m ELSE delete_session(g.m, g.ret),
                  tasks, loop)
        /\ last' = Op("cancel", session_manager.user_sessions[user], NoSession)
    /\ now' = now

\* the callback "apply": _handle_apply
BotApply(user) ==
    /\ loop = Idle
    /\ is_authorized(user)
    /\ LET g == get_user_session(session_manager, user, now) IN
        IF g.ret # NoSession /\ get_approved_count(heap[g.ret]) # 0
        THEN /\ Commit([heap EXCEPT ![g.ret] = set_state(@, "applying", now)],
                       g.m, tasks, loop)
             /\ last' = Op("set_state", g.ret, NoSession)
        ELSE /\ Commit(heap, g.m, tasks, loop)
             /\ last' = NoOp
    /\ now' = now

\* BotToggle that approves the last of the note's suggestions
BotToggleLast(user, note_id) ==
    /\ loop = Idle
    /\ is_authorized(user)
    /\ LET g == get_user_session(session_manager, user, now) IN
        IF g.ret = NoSession
        THEN /\ Commit(heap, g.m, tasks, loop)
             /\ last' = NoOp
        ELSE LET session == heap[g.ret]
                 suggestions == DictGet(session.suggestions, note_id, <<>>)
             IN IF is_approved(session, note_id)
                THEN /\ Commit([heap EXCEPT ![g.ret] = unapprove_note(@, note_id, now)],
                               g.m, tasks, loop)
                     /\ last' = Op("unapprove_note", g.ret, NoSession)
                ELSE IF suggestions # <<>>
                THEN /\ Commit([heap EXCEPT ![g.ret] =
                                   approve_suggestion(@, note_id,
                                                      suggestions[Len(suggestions)], now)],
                               g.m, tasks, loop)
                     /\ last' = Op("approve_suggestion", g.ret, NoSession)
                ELSE /\ Commit(heap, g.m, tasks, loop)
                     /\ last' = NoOp
    /\ now' = now

\* the callback "toggle:<note_id>": _handle_toggle
BotToggle(user, note_id) ==
    /\ loop = Idle
    /\ is_authorized(user)
    /\ LET g == get_user_session(session_manager, user, now) IN
        IF g.ret = NoSession
        THEN /\ Commit(heap, g.m, tasks, loop)
             /\ last' = NoOp
        ELSE LET session == heap[g.ret]
                 suggestions == DictGet(session.suggestions, note_id, <<>>)
             IN IF is_approved(session, note_id)
                THEN /\ Commit([heap EXCEPT ![g.ret] = unapprove_note(@, note_id, now)],
                               g.m, tasks, loop)
                     /\ last' = Op("unapprove_note", g.ret, NoSession)
                ELSE IF suggestions # <<>>
                THEN /\ Commit([heap EXCEPT ![g.ret] =
                                   approve_suggestion(@, note_id, suggestions[1], now)],
                               g.m, tasks, loop)
                     /\ last' = Op("approve_suggestion", g.ret, NoSession)
                ELSE /\ Commit(heap, g.m, tasks, loop)
                     /\ last' = NoOp
    /\ now' = now

\* ---------------------------------------------------------- HTTP endpoints
\* HttpSuggestions that touches the session it reads
HttpSuggestionsTouches(sid) ==
    /\ loop = Idle
    /\ LET g == get_session(session_manager, sid, now) IN
        /\ Commit(IF g.ret = NoSession THEN heap
                  ELSE [heap EXCEPT ![sid] = touch(@, now)],
                  g.m, tasks, loop)
        /\ last' = Op("get_session", sid, g.ret)
    /\ now' = now

\* GET /telegram/suggestions/{session_id}
HttpSuggestions(sid) ==
    /\ loop = Idle
    /\ LET g == get_session(session_manager, sid, now) IN
        /\ Commit(heap, g.m, tasks, loop)
        /\ last' = Op("get_session", sid, g.ret)
    /\ now' = now

\* POST /telegram/apply/{session_id}: get_session, set_state(APPLYING)
HttpApplyBegin(sid) ==
    /\ loop = Idle
    /\ LET g == get_session(session_manager, sid, now) IN
        IF g.ret = NoSession
        THEN /\ Commit(heap, g.m, tasks, loop)
             /\ last' = NoOp
        ELSE /\ Commit([heap EXCEPT ![sid] = set_state(@, "applying", now)],
                       g.m, tasks, [co |-> "http_apply", sid |-> sid])
             /\ last' = Op("set_state", sid, NoSession)
    /\ now' = now

\* HttpApplyDone that returns success without deleting the session
HttpApplyDoneKeeps ==
    /\ loop.co = "http_apply"
    /\ Commit(heap, session_manager, tasks, Idle)
    /\ last' = Op("delete_session", loop.sid, NoSession)
    /\ now' = now

\* POST /telegram/apply/{session_id}, the rest: nothing in the try block can
\* raise, so the session is deleted and success returned
HttpApplyDone ==
    /\ loop.co = "http_apply"
    /\ Commit(heap, delete_session(session_manager, loop.sid), tasks, Idle)
    /\ last' = Op("delete_session", loop.sid, NoSession)
    /\ now' = now

\* POST /telegram/cleanup: cleanup_expired, then get_stats
HttpCleanup ==
    /\ loop = Idle
    /\ LET c == cleanup_expired(session_manager, now)
           g == get_stats(c.m, now) IN
        /\ Commit(heap, g.m, tasks, loop)
        /\ last' = [Op("cleanup_expired", NoSession, NoSession) EXCEPT
                       !.removed = c.ret, !.stats = g.ret]
    /\ now' = now

\* GET /telegram/stats: get_stats
HttpStats ==
    /\ loop = Idle
    /\ LET g == get_stats(session_manager, now) IN
        /\ Commit(heap, g.m, tasks, loop)
        /\ last' = [Op("get_stats", NoSession, NoSession) EXCEPT !.stats = g.ret]
    /\ now' = now

Next ==
    \/ Tick
    \/ \E user \in Users : HttpSyncCreate(user)
    \/ HttpSyncStart
    \/ \E user \in Users : BotSyncCreate(user)
    \/ BotSyncStart
    \/ \E sid \in 1..MaxSessions : BotSyncReplied(sid)
    \/ \E user \in Users : Rejected(user)
    \/ \E sid \in 1..MaxSessions : BgStart(sid)
    \/ \E sid \in 1..MaxSessions : BgNoNotes(sid)
    \/ \E sid \in 1..MaxSessions : BgLoaded(sid)
    \/ BgClassifyNote
    \/ BgClassifyFailed
    \/ BgReviewing
    \/ \E user \in Users : BotStatus(user)
    \/ \E user \in Users : BotCancel(user)
    \/ \E user \in Users : BotApply(user)
    \/ \E user \in Users, note_id \in NoteIds : BotToggle(user, note_id)
    \/ \E sid \in 1..MaxSessions : HttpSuggestions(sid)
    \/ \E sid \in 1..MaxSessions : HttpApplyBegin(sid)
    \/ HttpApplyDone
    \/ HttpCleanup
    \/ HttpStats

Spec == Init /\ [][Next]_vars

\* ------------------------------------------------------------------ claims
Sessions == session_manager.sessions
UserIndex == session_manager.user_sessions
OwnedBy(user) == {sid \in Sessions : heap[sid].user_id = user}
\* the session objects the program still has (registered or referenced)
Objects == {sid \in SessionIds : heap[sid].state # "collected"}

\* C1: the registry holds at most one session per user; right after a create
\* for a user the new session is the only one of that user that is registered
\* and retrievable, and no earlier session of that user can be retrieved.
C1_OneSessionPerUser ==
    /\ \A user \in Users : Cardinality(OwnedBy(user)) <= 1
    /\ last.op = "create" =>
        LET user == heap[last.sid].user_id IN
        /\ OwnedBy(user) = {last.sid}
        /\ get_user_session(session_manager, user, now).ret \in {last.sid, NoSession}
        /\ \A sid \in SessionIds \ {last.sid} :
              heap[sid].user_id = user =>
                  get_session(session_manager, sid, now).ret = NoSession

\* a second create for the same user has just completed
C1_Witness ==
    /\ last.op = "create"
    /\ \E sid \in SessionIds \ {last.sid} : heap[sid].user_id = heap[last.sid].user_id
    /\ OwnedBy(heap[last.sid].user_id) = {last.sid}

\* C2: get_session and get_user_session never return a session whose
\* expires_at is earlier than now; if the session looked up is expired the call
\* returns None and the session is in neither index afterwards.
C2_NoExpiredReturned ==
    last.op \in {"get_session", "get_user_session"} =>
        /\ last.ret # NoSession => ~(heap[last.ret].expires_at < now)
        /\ (last.sid \in SessionIds /\ now > heap[last.sid].expires_at) =>
              /\ last.ret = NoSession
              /\ last.sid \notin Sessions
              /\ \A user \in Users : UserIndex[user] # last.sid

\* get_user_session found the user's session expired and evicted it, while
\* a coroutine still holds the object
C2_Witness ==
    /\ last.op = "get_user_session"
    /\ last.sid \in Objects
    /\ now > heap[last.sid].expires_at
    /\ last.ret = NoSession
    /\ last.sid \notin Sessions

\* C3: a session that has been removed from the registry is never registered
\* or returned again, whatever happens to the object afterwards.
C3_DeletionIrreversible ==
    [][\A sid \in SessionIds :
          sid \notin Sessions =>
              /\ sid \notin session_manager'.sessions
              /\ \A user \in Users : session_manager'.user_sessions[user] # sid
              /\ last'.ret # sid]_vars

\* the background task has just moved a deleted session to CLASSIFYING
C3_Witness ==
    /\ last.op = "set_state"
    /\ loop = [co |-> "bg", sid |-> last.sid]
    /\ last.sid \notin Sessions
    /\ heap[last.sid].state = "classifying"

\* C4: the two indices agree: every user-index entry names a registered
\* session of that user, and every registered session is its owner's entry.
C4_IndicesAgree ==
    /\ \A user \in Users :
          UserIndex[user] # NoSession =>
              /\ UserIndex[user] \in Sessions
              /\ heap[UserIndex[user]].user_id = user
    /\ \A sid \in Sessions : UserIndex[heap[sid].user_id] = sid

\* a delete has just completed and another user's session is still registered
C4_Witness ==
    /\ last.op \in {"delete_session", "cancel"}
    /\ last.sid \in SessionIds
    /\ last.sid \notin Sessions
    /\ Sessions # {}

\* C7: expires_at equals updated_at + TTL for every session object, also
\* right after construction.
C7_ExpiresAtFollowsUpdatedAt ==
    \A sid \in Objects : heap[sid].expires_at = heap[sid].updated_at + TTL

\* C8: a step that changes a session's state, approvals, date range, notes
\* or suggestions leaves updated_at at the time of the step and expires_at
\* at that time plus TTL.
C8_MutationTouches ==
    [][\A sid \in SessionIds :
          (/\ heap'[sid].state # "collected"
           /\ \/ heap'[sid].state # heap[sid].state
              \/ heap'[sid].approved # heap[sid].approved
              \/ heap'[sid].date_range # heap[sid].date_range
              \/ heap'[sid].notes # heap[sid].notes
              \/ heap'[sid].suggestions # heap[sid].suggestions)
          => /\ heap'[sid].updated_at = now'
             /\ heap'[sid].expires_at = now' + TTL]_vars

\* C9 as stated: updated_at (and expires_at) of a session changes only in a
\* step that changes its lifecycle state.
C9_OnlyTransitionsTouch ==
    [][\A sid \in SessionIds :
          (/\ heap'[sid].state # "collected"
           /\ \/ heap'[sid].updated_at # heap[sid].updated_at
              \/ heap'[sid].expires_at # heap[sid].expires_at)
          => heap'[sid].state # heap[sid].state]_vars

\* C9 amended: updated_at (and expires_at) of a session changes only in a step
\* that calls set_state, approve_suggestion or unapprove_note on that session.
C9_OnlyTouchingCallsTouch ==
    [][\A sid \in SessionIds :
          (/\ heap'[sid].state # "collected"
           /\ \/ heap'[sid].updated_at # heap[sid].updated_at
              \/ heap'[sid].expires_at # heap[sid].expires_at)
          => /\ last'.sid = sid
             /\ last'.op \in {"set_state", "approve_suggestion", "unapprove_note"}]_vars

\* an approval has just moved updated_at past the time of the last transition
C9_Witness ==
    /\ last.op = "approve_suggestion"
    /\ heap[last.sid].state = "reviewing"
    /\ heap[last.sid].updated_at = now
    /\ now > 0

LegalEdges ==
    {<<"idle", "syncing">>, <<"syncing", "classifying">>,
     <<"classifying", "reviewing">>, <<"reviewing", "applying">>,
     <<"applying", "reviewing">>}

\* C10: the lifecycle state of a registered session changes only along
\* Idle->Syncing, Syncing->Classifying, Classifying->Reviewing,
\* Reviewing->Applying and Applying->Reviewing.
C10_OnlyLegalEdges ==
    [][\A sid \in Sessions :
          (heap'[sid].state # heap[sid].state /\ heap'[sid].state # "collected")
          => <<heap[sid].state, heap'[sid].state>> \in LegalEdges]_vars

\* C12: when POST /telegram/apply returns success the session is deleted:
\* get_session(session_id) and get_user_session(owner) both return None.
C12_ApplySuccessDeletes ==
    last.op = "delete_session" =>
        /\ last.sid \notin Sessions
        /\ get_session(session_manager, last.sid, now).ret = NoSession
        /\ get_user_session(session_manager, heap[last.sid].user_id, now).ret = NoSession

\* an apply has succeeded while a session of another user exists
C12_Witness ==
    /\ last.op = "delete_session"
    /\ \E sid \in SessionIds : sid # last.sid /\ heap[sid].user_id # heap[last.sid].user_id

\* ---------------------------------------------------------------- threads
\* SessionManager called from several threads: each caller executes the
\* method bodies one dictionary read or write at a time, and the steps of
\* different callers interleave.  The class holds no lock.
\* registry calls per caller
MaxCalls == 2

Return(c, result) ==
    [callers[c] EXCEPT !.pc = "idle", !.result = result, !.to_delete = {},
                       !.session = NoSession, !.ret_to = "idle"]

\* what a step of caller c leaves alone
ThreadFrame == UNCHANGED <<now, tasks, loop, unit, last>>

\* create_session(user_id, username) is called
CallCreate(c, user) ==
    /\ callers[c].pc = "idle"
    /\ callers[c].calls < MaxCalls
    /\ Len(heap) + Cardinality({d \in Callers : callers[d].pc # "idle"
                                   /\ callers[d].op = "create"
                                   /\ callers[d].session = NoSession}) < MaxSessions
    /\ callers' = [callers EXCEPT ![c] =
          Caller("scan", "create", user, NoSession, {}, NoSession, "next", "none",
                 callers[c].calls + 1)]
    /\ UNCHANGED <<heap, session_manager>>
    /\ ThreadFrame

\* cleanup_user_sessions: to_delete = [sid for sid, session in ... ]
CleanupScan(c) ==
    /\ callers[c].pc = "scan"
    /\ callers' = [callers EXCEPT ![c].pc = "next",
                                  ![c].to_delete = OwnedBy(callers[c].user)]
    /\ UNCHANGED <<heap, session_manager>>
    /\ ThreadFrame

\* cleanup_user_sessions: for sid in to_delete: self.delete_session(sid)
CleanupNext(c) ==
    /\ callers[c].pc = "next"
    /\ IF callers[c].to_delete = {}
       THEN callers' = [callers EXCEPT ![c].pc = "index_check"]
       ELSE LET sid == CHOOSE x \in callers[c].to_delete :
                          \A y \in callers[c].to_delete : x <= y
            IN callers' = [callers EXCEPT ![c].pc = "delete_get", ![c].sid = sid,
                              ![c].to_delete = callers[c].to_delete \ {sid}]
    /\ UNCHANGED <<heap, session_manager>>
    /\ ThreadFrame

\* delete_session(session_id) is called
CallDelete(c, sid) ==
    /\ callers[c].pc = "idle"
    /\ callers[c].calls < MaxCalls
    /\ callers' = [callers EXCEPT ![c] =
          Caller("delete_get", "delete", "none", sid, {}, NoSession, "idle", "none",
                 callers[c].calls + 1)]
    /\ UNCHANGED <<heap, session_manager>>
    /\ ThreadFrame

\* delete_session: session = self._sessions.get(session_id); if session:
DeleteGet(c) ==
    /\ callers[c].pc = "delete_get"
    /\ IF callers[c].sid \in Sessions
       THEN callers' = [callers EXCEPT ![c].pc = "delete_del",
                                       ![c].session = callers[c].sid]
       ELSE IF callers[c].ret_to = "idle"
       THEN callers' = [callers EXCEPT ![c] = Return(c, "False")]
       ELSE callers' = [callers EXCEPT ![c].pc = callers[c].ret_to]
    /\ UNCHANGED <<heap, session_manager>>
    /\ ThreadFrame

\* delete_session: del self._sessions[session_id] (KeyError if it is gone)
DeleteDel(c) ==
    /\ callers[c].pc = "delete_del"
    /\ IF callers[c].sid \in Sessions
       THEN /\ session_manager' =
                  [session_manager EXCEPT !.sessions = @ \ {callers[c].sid}]
            /\ callers' = [callers EXCEPT ![c].pc = "delete_user_get"]
       ELSE /\ session_manager' = session_manager
            /\ callers' = [callers EXCEPT ![c] = Return(c, "KeyError")]
    /\ UNCHANGED heap
    /\ ThreadFrame

\* delete_session: if self._user_sessions.get(session.user_id) == session_id:
DeleteUserGet(c) ==
    /\ callers[c].pc = "delete_user_get"
    /\ IF UserIndex[heap[callers[c].session].user_id] = callers[c].sid
       THEN callers' = [callers EXCEPT ![c].pc = "delete_user_del"]
       ELSE IF callers[c].ret_to = "idle"
       THEN callers' = [callers EXCEPT ![c] = Return(c, "True")]
       ELSE callers' = [callers EXCEPT ![c].pc = callers[c].ret_to,
                                       ![c].session = NoSession]
    /\ UNCHANGED <<heap, session_manager>>
    /\ ThreadFrame

\* delete_session: del self._user_sessions[session.user_id] (whatever the
\* entry is by now; KeyError if it is gone); return True
DeleteUserDel(c) ==
    /\ callers[c].pc = "delete_user_del"
    /\ LET user == heap[callers[c].session].user_id IN
       IF UserIndex[user] # NoSession
       THEN /\ session_manager' =
                  [session_manager EXCEPT !.user_sessions[user] = NoSession]
            /\ IF callers[c].ret_to = "idle"
               THEN callers' = [callers EXCEPT ![c] = Return(c, "True")]
               ELSE callers' = [callers EXCEPT ![c].pc = callers[c].ret_to,
                                               ![c].session = NoSession]
       ELSE /\ session_manager' = session_manager
            /\ callers' = [callers EXCEPT ![c] = Return(c, "KeyError")]
    /\ UNCHANGED heap
    /\ ThreadFrame

\* cleanup_user_sessions: if user_id in self._user_sessions:
CleanupIndexCheck(c) ==
    /\ callers[c].pc = "index_check"
    /\ callers' = [callers EXCEPT ![c].pc =
          IF UserIndex[callers[c].user] # NoSession THEN "index_del" ELSE "construct"]
    /\ UNCHANGED <<heap, session_manager>>
    /\ ThreadFrame

\* cleanup_user_sessions: del self._user_sessions[user_id]
CleanupIndexDel(c) ==
    /\ callers[c].pc = "index_del"
    /\ IF UserIndex[callers[c].user] # NoSession
       THEN /\ session_manager' =
                  [session_manager EXCEPT !.user_sessions[callers[c].user] = NoSession]
            /\ callers' = [callers EXCEPT ![c].pc = "construct"]
       ELSE /\ session_manager' = session_manager
            /\ callers' = [callers EXCEPT ![c] = Return(c, "KeyError")]
    /\ UNCHANGED heap
    /\ ThreadFrame

\* create_session: session = TelegramSession(user_id=..., username=...)
Construct(c) ==
    /\ callers[c].pc = "construct"
    /\ heap' = Append(heap, TelegramSession(callers[c].user, Len(heap) + 1, now, now))
    /\ callers' = [callers EXCEPT ![c].pc = "put_session",
                                  ![c].session = Len(heap) + 1]
    /\ UNCHANGED session_manager
    /\ ThreadFrame

\* create_session: self._sessions[session.session_id] = session
PutSession(c) ==
    /\ callers[c].pc = "put_session"
    /\ session_manager' =
          [session_manager EXCEPT !.sessions = @ \union {callers[c].session}]
    /\ callers' = [callers EXCEPT ![c].pc = "put_user"]
    /\ UNCHANGED heap
    /\ ThreadFrame

\* create_session: self._user_sessions[user_id] = session.session_id; return
PutUser(c) ==
    /\ callers[c].pc = "put_user"
    /\ session_manager' =
          [session_manager EXCEPT !.user_sessions[callers[c].user] = callers[c].session]
    /\ callers' = [callers EXCEPT ![c] = [Return(c, "session") EXCEPT
                                             !.sid = callers[c].session]]
    /\ UNCHANGED heap
    /\ ThreadFrame

\* get_user_session(user_id) is called
CallGetUser(c, user) ==
    /\ callers[c].pc = "idle"
    /\ callers[c].calls < MaxCalls
    /\ callers' = [callers EXCEPT ![c] =
          Caller("user_get", "get_user", user, NoSession, {}, NoSession, "idle",
                 "none", callers[c].calls + 1)]
    /\ UNCHANGED <<heap, session_manager>>
    /\ ThreadFrame

\* get_user_session: session_id = self._user_sessions.get(user_id)
GetUserRead(c) ==
    /\ callers[c].pc = "user_get"
    /\ IF UserIndex[callers[c].user] = NoSession
       THEN callers' = [callers EXCEPT ![c] = Return(c, "None")]
       ELSE callers' = [callers EXCEPT ![c].pc = "session_get",
                                       ![c].sid = UserIndex[callers[c].user]]
    /\ UNCHANGED <<heap, session_manager>>
    /\ ThreadFrame

\* get_session: session = self._sessions.get(session_id); expired sessions
\* go on to delete_session.  "missing": the user index named a session the
\* identifier index does not hold.
GetSessionRead(c) ==
    /\ callers[c].pc = "session_get"
    /\ IF callers[c].sid \notin Sessions
       THEN callers' = [callers EXCEPT ![c] = Return(c, "missing")]
       ELSE IF is_expired(heap[callers[c].sid], now)
       THEN callers' = [callers EXCEPT ![c].pc = "delete_get"]
       ELSE callers' = [callers EXCEPT ![c] = Return(c, "session")]
    /\ UNCHANGED <<heap, session_manager>>
    /\ ThreadFrame

NextThreads ==
    \/ \E c \in Callers, user \in Users : CallCreate(c, user)
    \/ \E c \in Callers : CleanupScan(c)
    \/ \E c \in Callers : CleanupNext(c)
    \/ \E c \in Callers, sid \in 1..MaxSessions : CallDelete(c, sid)
    \/ \E c \in Callers : DeleteGet(c)
    \/ \E c \in Callers : DeleteDel(c)
    \/ \E c \in Callers : DeleteUserGet(c)
    \/ \E c \in Callers : DeleteUserDel(c)
    \/ \E c \in Callers : CleanupIndexCheck(c)
    \/ \E c \in Callers : CleanupIndexDel(c)
    \/ \E c \in Callers : Construct(c)
    \/ \E c \in Callers : PutSession(c)
    \/ \E c \in Callers : PutUser(c)
    \/ \E c \in Callers, user \in Users : CallGetUser(c, user)
    \/ \E c \in Callers : GetUserRead(c)
    \/ \E c \in Callers : GetSessionRead(c)

SpecThreads == Init /\ [][NextThreads]_vars

\* C5: with the callers' dictionary reads and writes interleaved, no caller
\* finds a session present in one index and absent from the other: the state
\* a caller can read has the indices in agreement, and get_user_session never
\* gets an identifier from the user index that the identifier index lacks.
C5_OperationsAppearAtomic ==
    /\ \A c \in Callers : callers[c].result # "missing"
    /\ (\E c \in Callers : callers[c].pc = "idle") =>
          /\ \A user \in Users :
                UserIndex[user] # NoSession => UserIndex[user] \in Sessions
          /\ \A sid \in Sessions : UserIndex[heap[sid].user_id] = sid

\* C6: after two interleaved create_session calls for one user, exactly one
\* session of that user is registered and the user index names it.
C6_ConcurrentCreatesLeaveOne ==
    \A user \in Users :
        (\A c \in Callers :
            /\ callers[c].pc = "idle"
            /\ callers[c].calls = 1
            /\ callers[c].op = "create"
            /\ callers[c].user = user)
        => /\ Cardinality(OwnedBy(user)) = 1
           /\ UserIndex[user] \in OwnedBy(user)

\* ------------------------------------------------- approvals of one session
\* One TelegramSession on its own: approve_suggestion and unapprove_note are
\* called in any order, with any note and tag.  trail records every call and
\* the approved dict it left.
\* calls made on the session
MaxOps == 4

TagIds == {"t1", "t2"}

EngineFrame == UNCHANGED <<now, heap, session_manager, tasks, loop, callers, last>>

InitApprove ==
    /\ EngineInit
    /\ unit = [kind |-> "session", session |-> TelegramSession("u1", 1, 0, 0),
               trail |-> <<>>]

\* session.approve_suggestion(note_id, tag_id)
Approve(note_id, tag_id) ==
    /\ Len(unit.trail) < MaxOps
    /\ LET session == approve_suggestion(unit.session, note_id, tag_id, now) IN
       unit' = [unit EXCEPT !.session = session,
                   !.trail = Append(@, [op |-> "approve", note |-> note_id,
                                        tag |-> tag_id, approved |-> session.approved])]
    /\ EngineFrame

\* session.unapprove_note(note_id)
Unapprove(note_id) ==
    /\ Len(unit.trail) < MaxOps
    /\ LET session == unapprove_note(unit.session, note_id, now) IN
       unit' = [unit EXCEPT !.session = session,
                   !.trail = Append(@, [op |-> "unapprove", note |-> note_id,
                                        tag |-> "None", approved |-> session.approved])]
    /\ EngineFrame

NextApprove ==
    \/ \E note_id \in NoteIds, tag_id \in TagIds : Approve(note_id, tag_id)
    \/ \E note_id \in NoteIds : Unapprove(note_id)

SpecApprove == InitApprove /\ [][NextApprove]_vars

\* the approved dict before call i of the trail
Before(i) == IF i = 1 THEN EmptyDict ELSE unit.trail[i - 1].approved

\* the calls i that approve a note and are followed at once by its unapprove
RoundTrips ==
    {i \in 1..(Len(unit.trail) - 1) :
        /\ unit.trail[i].op = "approve"
        /\ unit.trail[i + 1].op = "unapprove"
        /\ unit.trail[i + 1].note = unit.trail[i].note}

\* C13 as stated: approve(note, tag) then unapprove(note) leaves the approved
\* dict as it was before the approve, whether or not the note had a label.
C13_RoundTripAlways ==
    \A i \in RoundTrips : unit.trail[i + 1].approved = Before(i)

\* C13: approve(note, tag) then unapprove(note) leaves the approved dict as
\* it was before the approve when the note had no approved label; when it had
\* one, the note ends with no label and the other notes keep theirs.
C13_RoundTripWhenUnapproved ==
    \A i \in RoundTrips :
        LET note == unit.trail[i].note
            after == unit.trail[i + 1].approved
        IN /\ note \notin DOMAIN Before(i) => after = Before(i)
           /\ note \in DOMAIN Before(i) =>
                 /\ note \notin DOMAIN after
                 /\ DOMAIN after = DOMAIN Before(i) \ {note}
                 /\ \A other \in DOMAIN after : after[other] = Before(i)[other]

\* a round trip on a note without a label, in a session with another approval
C13_Witness ==
    \E i \in RoundTrips :
        /\ unit.trail[i].note \notin DOMAIN Before(i)
        /\ Before(i) # EmptyDict

\* the tag of the latest approve of the note among the first i calls that no
\* unapprove of the note follows, or "None"
RECURSIVE LatestApprove(_, _)
LatestApprove(note, i) ==
    IF i = 0 THEN "None"
    ELSE IF unit.trail[i].note = note THEN unit.trail[i].tag
    ELSE LatestApprove(note, i - 1)

\* C14: after any calls each note has the label of its latest approve that no
\* unapprove followed and no other; repeating an approve leaves the dict
\* unchanged; get_approved_count is the number of notes with a label.
C14_ApproveIsUpsert ==
    LET n == Len(unit.trail)
        session == unit.session
    IN /\ \A note \in NoteIds :
            IF LatestApprove(note, n) = "None"
            THEN ~is_approved(session, note)
            ELSE is_approved(session, note)
                    /\ session.approved[note] = LatestApprove(note, n)
       /\ \A i \in 2..n :
            (unit.trail[i].op = "approve"
                /\ [unit.trail[i] EXCEPT !.approved = EmptyDict]
                      = [unit.trail[i - 1] EXCEPT !.approved = EmptyDict])
            => unit.trail[i].approved = unit.trail[i - 1].approved
       /\ get_approved_count(session) =
             Cardinality({note \in NoteIds : LatestApprove(note, n) # "None"})

\* a note was approved with one tag, then another, then the same again
C14_Witness ==
    \E i \in 1..(Len(unit.trail) - 2) :
        /\ unit.trail[i].op = "approve"
        /\ unit.trail[i + 1].op = "approve"
        /\ unit.trail[i + 1].note = unit.trail[i].note
        /\ unit.trail[i + 1].tag # unit.trail[i].tag
        /\ unit.trail[i + 2] = unit.trail[i + 1]

\* ------------------------------------------------------- LocalClassifier
\* One LocalClassifier on its own: load_tags and classify are called in any
\* order.  Texts are sequences of words; SentenceTransformer.encode is a fixed
\* table from texts to vectors with integer norms, so that cosine similarity
\* is exact in units of 1/ScoreUnit.
\* labels in a vocabulary
MaxTags == 2
\* load_tags calls
MaxLoads == 2
\* similarities are k / ScoreUnit
ScoreUnit == 25

\* Tag(id, name, description); TagA and TagB have the same text
TagA == [id |-> "a", name |-> "east", description |-> ""]
TagB == [id |-> "b", name |-> "east", description |-> ""]
TagC == [id |-> "c", name |-> "north", description |-> "up"]
TagD == [id |-> "d", name |-> "void", description |-> ""]
Tags == {TagA, TagB, TagC, TagD}

\* the lists of distinct tags load_tags is called with
Vocabularies ==
    {tags \in UNION {[1..n -> Tags] : n \in 0..MaxTags} :
        \A i, j \in DOMAIN tags : i # j => tags[i] # tags[j]}

\* Note(id, name, content)
Notes ==
    {[id |-> "n1", name |-> "", content |-> ""],
     [id |-> "n2", name |-> " ", content |-> " "],
     [id |-> "n3", name |-> "ne", content |-> ""],
     [id |-> "n4", name |-> "east", content |-> "more"],
     [id |-> "n5", name |-> "void", content |-> ""],
     [id |-> "n6", name |-> "west", content |-> ""]}

TopKs == (0 - 1)..MaxTags
\* -1.0, 0.0, 0.2, 0.8
MinScores == {0 - ScoreUnit, 0, 5, 20}

\* str.strip() leaves nothing
Whitespace == {"", " ", "\n"}
Blank(text) == \A i \in DOMAIN text : text[i] \in Whitespace

\* tag.name, or f"{tag.name}: {tag.description}"
TagText(tag) ==
    IF tag.description # "" THEN <<tag.name, ": ", tag.description>> ELSE <<tag.name>>

\* note.name, or f"{note.name}\n{note.content}"
NoteText(note) ==
    IF note.content # "" THEN <<note.name, "\n", note.content>> ELSE <<note.name>>

\* self.model.encode(text): a deterministic embedding model
encode(text) ==
    CASE text = <<"east">> -> <<1, 0>>
      [] text = <<"west">> -> <<0 - 1, 0>>
      [] text = <<"ne">> -> <<3, 4>>
      [] text = <<"void">> -> <<0, 0>>
      [] OTHER -> <<0, 1>>

\* np.linalg.norm
Norm(v) == CHOOSE n \in 0..5 : n * n = v[1] * v[1] + v[2] * v[2]

\* a float: a number of 1/ScoreUnit, or nan
Float(v) == [nan |-> FALSE, v |-> v]
NaN == [nan |-> TRUE, v |-> 0]

\* _cosine_similarity(a, b): a / norm(a) and each row of b / norm(b) are nan
\* when the norm is 0 (0/0 warns, it does not raise); np.dot keeps the nan
cosine_similarity(a, b) ==
    [i \in DOMAIN b |->
        IF Norm(a) = 0 \/ Norm(b[i]) = 0 THEN NaN
        ELSE Float(((a[1] * b[i][1] + a[2] * b[i][2]) * ScoreUnit)
                       \div (Norm(a) * Norm(b[i])))]

\* the orders np.argsort may leave equal values in: its default sort is not
\* stable, so the order of ties is whatever the build's sort produces; one
\* priority order of the indices stands for one build
TieOrders ==
    {ties \in [1..MaxTags -> 1..MaxTags] :
        \A i, j \in 1..MaxTags : i # j => ties[i] # ties[j]}

\* index i sorts before index j: ascending, nan last, ties as the build has it
SortsBefore(similarities, ties, i, j) ==
    IF similarities[i].nan # similarities[j].nan THEN similarities[j].nan
    ELSE IF ~similarities[i].nan /\ similarities[i].v # similarities[j].v
    THEN similarities[i].v < similarities[j].v
    ELSE ties[i] < ties[j]

\* np.argsort(similarities)
argsort(similarities, ties) ==
    LET n == Len(similarities) IN
    CHOOSE p \in [1..n -> 1..n] :
        \A a, b \in 1..n : a < b => SortsBefore(similarities, ties, p[a], p[b])

\* seq[::-1]
Reversed(seq) == [i \in 1..Len(seq) |-> seq[Len(seq) + 1 - i]]

\* seq[:k]: a negative k counts from the end
Prefix(seq, k) ==
    LET n == IF k >= 0 THEN (IF k < Len(seq) THEN k ELSE Len(seq))
             ELSE (IF Len(seq) + k > 0 THEN Len(seq) + k ELSE 0)
    IN [i \in 1..n |-> seq[i]]

\* a threshold test every score passes
AtLeastAlways(score, min_score) == TRUE

\* score >= min_score: False for nan
AtLeast(score, min_score) == ~score.nan /\ score.v >= min_score

\* LocalClassifier(): _tag_embeddings is None, _tags is []
NoEmbeddings == [loaded |-> FALSE, rows |-> <<>>]
LocalClassifier == [tags |-> <<>>, tag_embeddings |-> NoEmbeddings]

\* load_tags that adds the new tags to the ones already loaded
load_tags_appends(c, tags) ==
    [tags |-> c.tags \o tags,
     tag_embeddings |-> [loaded |-> TRUE,
                         rows |-> c.tag_embeddings.rows \o
                                     [i \in DOMAIN tags |-> encode(TagText(tags[i]))]]]

\* load_tags(tags)
load_tags(c, tags) ==
    [tags |-> tags,
     tag_embeddings |-> [loaded |-> TRUE,
                         rows |-> [i \in DOMAIN tags |-> encode(TagText(tags[i]))]]]

\* the suggestions of top_indices whose score is at least min_score, in order
RECURSIVE Suggestions(_, _, _, _)
Suggestions(c, similarities, top_indices, min_score) ==
    IF top_indices = <<>> THEN <<>>
    ELSE LET idx == Head(top_indices)
             rest == Suggestions(c, similarities, Tail(top_indices), min_score)
         IN IF AtLeast(similarities[idx], min_score)
            THEN <<[tag |-> c.tags[idx], score |-> similarities[idx].v]>> \o rest
            ELSE rest

\* classify(note, top_k, min_score): what it raises, what it returns, and
\* whether it called self.model.encode
classify(c, note, top_k, min_score, ties) ==
    IF ~c.tag_embeddings.loaded \/ Len(c.tags) = 0
    THEN [raised |-> "ValueError", suggestions |-> <<>>, encoded |-> FALSE]
    ELSE IF Blank(NoteText(note))
    THEN [raised |-> "None", suggestions |-> <<>>, encoded |-> FALSE]
    ELSE LET note_embedding == encode(NoteText(note))
             similarities == cosine_similarity(note_embedding, c.tag_embeddings.rows)
             top_indices == Prefix(Reversed(argsort(similarities, ties)), top_k)
         IN [raised |-> "None",
             suggestions |-> Suggestions(c, similarities, top_indices, min_score),
             encoded |-> TRUE]

NoCall == [op |-> "none"]

InitClassify ==
    /\ EngineInit
    /\ \E ties \in TieOrders :
          unit = [kind |-> "classifier", classifier |-> LocalClassifier, ties |-> ties,
                  loads |-> 0, vocabulary |-> <<>>, replaced |-> FALSE, call |-> NoCall]

\* classifier.load_tags(tags)
LoadTags(tags) ==
    /\ unit.loads < MaxLoads
    /\ unit' = [unit EXCEPT !.classifier = load_tags(@, tags),
                            !.loads = @ + 1,
                            !.vocabulary = tags,
                            !.replaced = unit.loads > 0 /\ unit.vocabulary # <<>>
                                            /\ unit.vocabulary # tags,
                            !.call = NoCall]
    /\ EngineFrame

\* classifier.classify(note, top_k, min_score)
Classify(note, top_k, min_score) ==
    /\ unit.call = NoCall
    /\ unit' = [unit EXCEPT !.call =
                  [op |-> "classify", note |-> note, top_k |-> top_k,
                   min_score |-> min_score,
                   result |-> classify(unit.classifier, note, top_k, min_score,
                                       unit.ties)]]
    /\ EngineFrame

\* the caller is done with what classify returned or raised
ClassifyDone ==
    /\ unit.call # NoCall
    /\ unit' = [unit EXCEPT !.call = NoCall]
    /\ EngineFrame

NextClassify ==
    \/ \E tags \in Vocabularies : LoadTags(tags)
    \/ ClassifyDone
    \/ \E note \in Notes, top_k \in TopKs, min_score \in MinScores :
          Classify(note, top_k, min_score)

SpecClassify == InitClassify /\ [][NextClassify]_vars

\* a classify call has been made, or made and returned
Called == unit.call.op = "classify"
Returned == Called /\ unit.call.result.raised = "None"

\* the similarities of the last call's note to the loaded tags
CallSimilarities ==
    cosine_similarity(encode(NoteText(unit.call.note)),
                      unit.classifier.tag_embeddings.rows)

\* the suggestions returned hold the tag with that score
Suggested(tag, score) ==
    \E i \in DOMAIN unit.call.result.suggestions :
        unit.call.result.suggestions[i] = [tag |-> tag, score |-> score]

\* C15 as stated: classify returns at most min(top_k, number of tags)
\* suggestions, with scores strictly descending and all at least min_score.
C15_TopKDescendingAboveMin ==
    Returned =>
        LET suggestions == unit.call.result.suggestions
            n == Len(unit.classifier.tags)
        IN /\ Len(suggestions) <= (IF unit.call.top_k < n THEN unit.call.top_k ELSE n)
           /\ \A i \in 1..(Len(suggestions) - 1) :
                 suggestions[i].score > suggestions[i + 1].score
           /\ \A i \in DOMAIN suggestions : suggestions[i].score >= unit.call.min_score

\* C15: for top_k >= 0 classify returns at most min(top_k, number of tags)
\* suggestions, with scores descending but equal for tags of equal
\* similarity, and all at least min_score; a negative top_k cuts from the
\* end and leaves at most number of tags + top_k suggestions.
C15_TopKNonIncreasingAboveMin ==
    Returned =>
        LET suggestions == unit.call.result.suggestions
            n == Len(unit.classifier.tags)
            top_k == unit.call.top_k
        IN /\ top_k >= 0 => Len(suggestions) <= (IF top_k < n THEN top_k ELSE n)
           /\ top_k < 0 => Len(suggestions) <= (IF n + top_k > 0 THEN n + top_k ELSE 0)
           /\ \A i \in 1..(Len(suggestions) - 1) :
                 suggestions[i].score >= suggestions[i + 1].score
           /\ \A i \in DOMAIN suggestions : suggestions[i].score >= unit.call.min_score

\* classify returned two suggestions with the same score
C15_Witness ==
    /\ Returned
    /\ Len(unit.call.result.suggestions) = 2
    /\ unit.call.result.suggestions[1].score = unit.call.result.suggestions[2].score
    /\ unit.call.result.suggestions[1].score > unit.call.min_score

\* C16: tags with equal similarity come out in the order of the loaded
\* vocabulary, and when top_k cuts between them the earlier tag is the one kept.
C16_TiesInVocabularyOrder ==
    (Returned /\ unit.call.result.encoded) =>
        LET suggestions == unit.call.result.suggestions
            tags == unit.classifier.tags
            Position(tag) == CHOOSE i \in DOMAIN tags : tags[i] = tag
        IN /\ \A i \in 1..(Len(suggestions) - 1) :
                 suggestions[i].score = suggestions[i + 1].score
                    => Position(suggestions[i].tag) < Position(suggestions[i + 1].tag)
           /\ \A i, j \in DOMAIN tags :
                 (/\ i < j
                  /\ ~CallSimilarities[i].nan
                  /\ CallSimilarities[i] = CallSimilarities[j]
                  /\ Suggested(tags[j], CallSimilarities[j].v))
                 => Suggested(tags[i], CallSimilarities[i].v)

\* C17: for a note whose text is empty or whitespace classify returns [] and
\* does not call the embedding model, whether no tags, an empty list of tags
\* or some tags have been loaded.
C17_BlankNoteGivesEmpty ==
    (Called /\ Blank(NoteText(unit.call.note))) =>
        /\ unit.call.result.raised = "None"
        /\ unit.call.result.suggestions = <<>>
        /\ ~unit.call.result.encoded

\* C18: classify raises the not-loaded ValueError exactly when no load_tags
\* call came before it.
C18_NotReadyOnlyBeforeLoad ==
    Called => (unit.call.result.raised = "ValueError" <=> unit.loads = 0)

\* C19: after any load_tags calls the classifier is what one load_tags of the
\* last list makes of a new classifier, so classify returns what it would
\* return after that single call, and every suggested tag is in the last list.
C19_LastVocabularyOnly ==
    /\ (unit.kind = "classifier" /\ unit.loads > 0) =>
          unit.classifier = load_tags(LocalClassifier, unit.vocabulary)
    /\ Called =>
          /\ unit.call.result =
                classify(load_tags(LocalClassifier, unit.vocabulary), unit.call.note,
                         unit.call.top_k, unit.call.min_score, unit.ties)
          /\ \A i \in DOMAIN unit.call.result.suggestions :
                \E j \in DOMAIN unit.vocabulary :
                    unit.call.result.suggestions[i].tag = unit.vocabulary[j]

\* classify returned suggestions after a second load_tags replaced other tags
C19_Witness ==
    /\ Returned
    /\ unit.replaced
    /\ unit.call.result.suggestions # <<>>

\* C20: when the note embedding or a tag embedding has norm 0, classify does
\* not raise and scores the pair 0: every tag whose score, with 0 for the
\* zero-norm pairs, is at least min_score and has fewer than top_k tags at or
\* above it is suggested with that score.
C20_ZeroNormScoresZero ==
    (/\ Called
     /\ unit.classifier.tags # <<>>
     /\ ~Blank(NoteText(unit.call.note))
     /\ \E i \in DOMAIN CallSimilarities : CallSimilarities[i].nan) =>
        LET score == [i \in DOMAIN CallSimilarities |->
                         IF CallSimilarities[i].nan THEN 0 ELSE CallSimilarities[i].v]
            tags == unit.classifier.tags
        IN /\ unit.call.result.raised = "None"
           /\ \A j \in DOMAIN tags :
                 (/\ score[j] >= unit.call.min_score
                  /\ Cardinality({i \in DOMAIN tags : i # j /\ score[i] >= score[j]})
                        < unit.call.top_k)
                 => Suggested(tags[j], score[j])

\* ------------------------------------------------------------- DateParser
\* The global DateParser on its own.  A date is its proleptic Gregorian
\* ordinal (date.toordinal()).  A text is a sequence of tokens separated by
\* whitespace: words, numbers and ISO dates; the regular expressions of
\* _parse_patterns are matched token by token.
\* midnights that pass after the parser is constructed
MaxDays == 1

\* date.min.toordinal(), date.max.toordinal()
MinOrdinal == 1
MaxOrdinal == 3652059
\* None for a date
NoDate == 0

IsLeap(y) == y % 4 = 0 /\ (y % 100 # 0 \/ y % 400 = 0)
DaysInMonth(y, m) ==
    IF m = 2 THEN (IF IsLeap(y) THEN 29 ELSE 28)
    ELSE IF m \in {4, 6, 9, 11} THEN 30 ELSE 31
DaysBeforeYear(y) ==
    (y - 1) * 365 + ((y - 1) \div 4) - ((y - 1) \div 100) + ((y - 1) \div 400)
RECURSIVE DaysBeforeMonth(_, _)
DaysBeforeMonth(y, m) ==
    IF m = 1 THEN 0 ELSE DaysBeforeMonth(y, m - 1) + DaysInMonth(y, m - 1)

\* date(y, m, d).toordinal()
ToOrdinal(y, m, d) == DaysBeforeYear(y) + DaysBeforeMonth(y, m) + d

\* date.weekday(): Monday is 0
weekday(d) == (d + 6) % 7

\* tokens of a text
Word(w) == [word |-> w, num |-> 0 - 1, ymd |-> <<0, 0, 0>>]
Num(n) == [word |-> "#", num |-> n, ymd |-> <<0, 0, 0>>]
Iso(y, m, d) == [word |-> "-", num |-> 0 - 1, ymd |-> <<y, m, d>>]

\* date.fromisoformat of one YYYY-MM-DD token: the date, or NoDate for ValueError
fromisoformat(token) ==
    LET y == token.ymd[1]
        m == token.ymd[2]
        d == token.ymd[3]
    IN IF token.word = "-" /\ y \in 1..9999 /\ m \in 1..12 /\ d \in 1..DaysInMonth(y, m)
       THEN ToOrdinal(y, m, d) ELSE NoDate

\* str.lower() of a token
LowerWord(w) ==
    CASE w = "Hoy" -> "hoy"
      [] w = "AYER" -> "ayer"
      [] w = "Últimos" -> "últimos"
      [] OTHER -> w
Lower(text) == [i \in DOMAIN text |-> [text[i] EXCEPT !.word = LowerWord(@)]]

\* str.strip(): leading and trailing whitespace goes
RECURSIVE Strip(_)
Strip(text) ==
    IF text = <<>> THEN text
    ELSE IF Head(text).word = " " THEN Strip(Tail(text))
    ELSE IF text[Len(text)].word = " " THEN Strip(SubSeq(text, 1, Len(text) - 1))
    ELSE text

Words(ws) == [i \in DOMAIN ws |-> Word(ws[i])]

\* dateparser.parse(text, languages=['es', 'en']): the library reads the
\* clock itself; it knows relative phrases and single ISO dates
dateparser_parse(text, clock) ==
    CASE text = Words(<<"hoy">>) -> clock
      [] text = Words(<<"ayer">>) -> clock - 1
      [] Len(text) = 3 /\ text[1] = Word("hace") /\ text[2].word = "#"
            /\ text[3] = Word("días") -> clock - text[2].num
      [] Len(text) = 1 /\ fromisoformat(text[1]) # NoDate -> fromisoformat(text[1])
      [] OTHER -> NoDate

\* DateParseResult(success, start_date, end_date, error_message), or what
\* parse raised
DateParseResult(success, start_date, end_date, error_message) ==
    [raised |-> "None", success |-> success, start_date |-> start_date,
     end_date |-> end_date, error_message |-> error_message]
Success(start_date, end_date) == DateParseResult(TRUE, start_date, end_date, "None")
Raised(exception) == [DateParseResult(FALSE, NoDate, NoDate, "None") EXCEPT !.raised = exception]
\* a strategy returns None
NoMatch == [DateParseResult(FALSE, NoDate, NoDate, "None") EXCEPT !.raised = "no match"]

\* _parse_special_cases with weeks that begin on Sunday
parse_special_cases_sunday_week(text, today) ==
    IF text \in {Words(<<"hoy">>), Words(<<"today">>)} THEN Success(today, today)
    ELSE IF text \in {Words(<<"ayer">>), Words(<<"yesterday">>)}
    THEN Success(today - 1, today - 1)
    ELSE IF text \in {Words(<<"esta", "semana">>), Words(<<"this", "week">>)}
    THEN Success(today - ((weekday(today) + 1) % 7), today)
    ELSE IF text \in {Words(<<"semana", "pasada">>), Words(<<"last", "week">>)}
    THEN Success(today - ((weekday(today) + 1) % 7) - 7,
                 today - ((weekday(today) + 1) % 7) - 1)
    ELSE NoMatch

\* _parse_special_cases(text)
parse_special_cases(text, today) ==
    IF text \in {Words(<<"hoy">>), Words(<<"today">>)} THEN Success(today, today)
    ELSE IF text \in {Words(<<"ayer">>), Words(<<"yesterday">>)}
    THEN Success(today - 1, today - 1)
    ELSE IF text \in {Words(<<"esta", "semana">>), Words(<<"this", "week">>)}
    THEN Success(today - weekday(today), today)
    ELSE IF text \in {Words(<<"semana", "pasada">>), Words(<<"last", "week">>)}
    THEN Success(today - (weekday(today) + 7), today - (weekday(today) + 7) + 6)
    ELSE NoMatch

\* where (?:últimos?|last)\s+(\d+)\s+(?:días?|days?) matches
LastDaysAt(text) ==
    {i \in 1..(Len(text) - 2) :
        /\ text[i].word \in {"último", "últimos", "last"}
        /\ text[i + 1].word = "#"
        /\ text[i + 2].word \in {"día", "días", "day", "days"}}

\* where desde\s+(.+?)\s+hasta\s+(.+) matches: <<position of desde, of hasta>>
FromToAt(text) ==
    {ij \in (1..Len(text)) \X (1..Len(text)) :
        /\ text[ij[1]] = Word("desde")
        /\ text[ij[2]] = Word("hasta")
        /\ ij[2] >= ij[1] + 2
        /\ ij[2] < Len(text)}

\* where (\d{4}-\d{2}-\d{2})\s+(\d{4}-\d{2}-\d{2}) matches
IsoPairAt(text) ==
    {i \in 1..(Len(text) - 1) : text[i].word = "-" /\ text[i + 1].word = "-"}

\* re.search: the leftmost match
Leftmost(positions) == CHOOSE i \in positions : \A j \in positions : i <= j

\* _parse_single_date(text)
parse_single_date(text, clock) ==
    LET stripped == Strip(text) IN
    IF Len(stripped) = 1 /\ fromisoformat(stripped[1]) # NoDate
    THEN fromisoformat(stripped[1])
    ELSE dateparser_parse(stripped, clock)

\* the "desde X hasta Y" branch of _parse_patterns
parse_from_to(text, clock) ==
    IF FromToAt(text) = {} THEN NoMatch
    ELSE LET desde == Leftmost({ij[1] : ij \in FromToAt(text)})
             hasta == Leftmost({ij[2] : ij \in {x \in FromToAt(text) : x[1] = desde}})
             start_date == parse_single_date(SubSeq(text, desde + 1, hasta - 1), clock)
             end_date == parse_single_date(SubSeq(text, hasta + 1, Len(text)), clock)
         IN IF start_date # NoDate /\ end_date # NoDate
            THEN Success(start_date, end_date) ELSE NoMatch

\* the ISO branch of _parse_patterns
parse_iso_pair(text) ==
    IF IsoPairAt(text) = {} THEN NoMatch
    ELSE LET i == Leftmost(IsoPairAt(text))
             start_date == fromisoformat(text[i])
             end_date == fromisoformat(text[i + 1])
         IN IF start_date # NoDate /\ end_date # NoDate
            THEN Success(start_date, end_date) ELSE NoMatch

\* the "últimos X días" branch of _parse_patterns: date - timedelta raises
\* OverflowError when the result is not a date
parse_last_days(text, today) ==
    IF LastDaysAt(text) = {} THEN NoMatch
    ELSE LET days == text[Leftmost(LastDaysAt(text)) + 1].num
             start_date == today - (days - 1)
         IN IF start_date \in MinOrdinal..MaxOrdinal
            THEN Success(start_date, today) ELSE Raised("OverflowError")

\* _parse_patterns that gives up when "desde X hasta Y" matches and X or Y
\* is not a date
parse_patterns_no_fall_through(text, today, clock) ==
    IF parse_last_days(text, today) # NoMatch THEN parse_last_days(text, today)
    ELSE IF FromToAt(text) # {} THEN parse_from_to(text, clock)
    ELSE parse_iso_pair(text)

\* _parse_patterns(text)
parse_patterns(text, today, clock) ==
    IF parse_last_days(text, today) # NoMatch THEN parse_last_days(text, today)
    ELSE IF parse_from_to(text, clock) # NoMatch THEN parse_from_to(text, clock)
    ELSE parse_iso_pair(text)

\* _parse_with_dateparser(text)
parse_with_dateparser(text, clock) ==
    IF dateparser_parse(text, clock) # NoDate
    THEN Success(dateparser_parse(text, clock), dateparser_parse(text, clock))
    ELSE NoMatch

\* DateParser.parse(text): today is self.today, clock the date of the call
parse(text, today, clock) ==
    LET text_lower == Strip(Lower(text)) IN
    IF parse_special_cases(text_lower, today) # NoMatch
    THEN parse_special_cases(text_lower, today)
    ELSE IF parse_patterns(text_lower, today, clock) # NoMatch
    THEN parse_patterns(text_lower, today, clock)
    ELSE IF parse_with_dateparser(text_lower, clock) # NoMatch
    THEN parse_with_dateparser(text_lower, clock)
    ELSE DateParseResult(FALSE, NoDate, NoDate, "No pude entender")

\* the days the process may start on: a Monday to the Sunday after it
\* (2024-01-29 .. 2024-02-04)
StartDates == ToOrdinal(2024, 1, 29)..ToOrdinal(2024, 2, 4)

\* the texts parse is called with
DateTexts ==
    {Words(<<"hoy">>),
     Words(<<" ", "Hoy", " ">>),
     Words(<<"ayer">>),
     Words(<<"esta", "semana">>),
     Words(<<"semana", "pasada">>),
     Words(<<"xyz">>),
     <<Word("últimos"), Num(3), Word("días")>>,
     <<Word("Últimos"), Num(1), Word("días")>>,
     <<Word("last"), Num(0), Word("days")>>,
     <<Word("últimos"), Num(4000000), Word("días")>>,
     <<Word("hace"), Num(2), Word("días")>>,
     <<Iso(2024, 2, 1), Iso(2024, 2, 5)>>,
     <<Iso(2024, 2, 5), Iso(2024, 2, 1)>>,
     <<Iso(2024, 2, 30), Iso(2024, 3, 1)>>,
     <<Iso(2024, 2, 1)>>,
     <<Word("desde"), Iso(2024, 2, 1), Word("hasta"), Iso(2024, 2, 5)>>,
     <<Word("desde"), Word("ayer"), Word("hasta"), Word("hoy")>>,
     <<Word("desde"), Word("xyz"), Word("hasta"), Iso(2024, 2, 1), Iso(2024, 2, 5)>>,
     <<Word("últimos"), Num(3), Word("días"), Word("desde"), Iso(2024, 2, 1),
       Word("hasta"), Iso(2024, 2, 5)>>}

\* date_parser = DateParser(): self.today = date.today(), once, at import
InitDates ==
    /\ EngineInit
    /\ \E today \in StartDates :
          unit = [kind |-> "date_parser", today |-> today, clock |-> today,
                  call |-> NoCall]

\* midnight passes while the process runs
Midnight ==
    /\ unit.clock - unit.today < MaxDays
    /\ unit.call = NoCall
    /\ unit' = [unit EXCEPT !.clock = @ + 1]
    /\ EngineFrame

\* parse_date_range(text)
Parse(text) ==
    /\ unit.call = NoCall
    /\ unit' = [unit EXCEPT !.call =
                  [op |-> "parse", text |-> text,
                   result |-> parse(text, unit.today, unit.clock)]]
    /\ EngineFrame

\* the caller is done with the result
ParseDone ==
    /\ unit.call # NoCall
    /\ unit' = [unit EXCEPT !.call = NoCall]
    /\ EngineFrame

NextDates ==
    \/ Midnight
    \/ \E text \in DateTexts : Parse(text)
    \/ ParseDone

SpecDates == InitDates /\ [][NextDates]_vars

\* parse has been called with this text
Parsed(text) == unit.call.op = "parse" /\ unit.call.text = text

\* C21: with today the date of the call, "hoy" gives (today, today), "ayer"
\* (today - 1, today - 1), "últimos 3 días" (today - 2, today),
\* "2024-02-01 2024-02-05" those two dates, and "xyz" a failure with no dates
\* and an error message.
C21_ScenariosAtCurrentDate ==
    LET today == unit.clock IN
    /\ Parsed(Words(<<"hoy">>)) => unit.call.result = Success(today, today)
    /\ Parsed(Words(<<"ayer">>)) => unit.call.result = Success(today - 1, today - 1)
    /\ Parsed(<<Word("últimos"), Num(3), Word("días")>>)
          => unit.call.result = Success(today - 2, today)
    /\ Parsed(<<Iso(2024, 2, 1), Iso(2024, 2, 5)>>)
          => unit.call.result = Success(ToOrdinal(2024, 2, 1), ToOrdinal(2024, 2, 5))
    /\ Parsed(Words(<<"xyz">>))
          => /\ unit.call.result.raised = "None"
             /\ ~unit.call.result.success
             /\ unit.call.result.start_date = NoDate
             /\ unit.call.result.end_date = NoDate
             /\ unit.call.result.error_message # "None"

\* C22: for every text the "últimos N días" pattern matches, parse succeeds
\* with start_date = today - (N - 1) and end_date = today.
C22_LastDaysWindow ==
    (unit.call.op = "parse" /\ LastDaysAt(Strip(Lower(unit.call.text))) # {}) =>
        LET text == Strip(Lower(unit.call.text))
            days == text[Leftmost(LastDaysAt(text)) + 1].num
        IN unit.call.result = Success(unit.today - (days - 1), unit.today)

\* C23: for every today, "esta semana" gives the Monday of today's week to
\* today, and "semana pasada" the Monday-to-Sunday week before it.
C23_WeekSpans ==
    /\ Parsed(Words(<<"esta", "semana">>)) =>
          LET r == unit.call.result IN
          /\ r.success /\ r.raised = "None"
          /\ weekday(r.start_date) = 0
          /\ r.end_date = unit.today
          /\ r.end_date - r.start_date \in 0..6
    /\ Parsed(Words(<<"semana", "pasada">>)) =>
          LET r == unit.call.result
              this_monday == CHOOSE d \in (unit.today - 6)..unit.today : weekday(d) = 0
          IN /\ r.success /\ r.raised = "None"
             /\ weekday(r.start_date) = 0
             /\ r.end_date = r.start_date + 6
             /\ r.end_date = this_monday - 1

\* a week was asked for on a day that is not a Monday
C23_Witness ==
    /\ \/ Parsed(Words(<<"esta", "semana">>))
       \/ Parsed(Words(<<"semana", "pasada">>))
    /\ weekday(unit.today) = 6

\* what each strategy makes of the text of the call, in the order keyword,
\* last N days, from X to Y, ISO pair, dateparser
Strategies ==
    LET text == Strip(Lower(unit.call.text)) IN
    <<parse_special_cases(text, unit.today),
      parse_last_days(text, unit.today),
      parse_from_to(text, unit.clock),
      parse_iso_pair(text),
      parse_with_dateparser(text, unit.clock)>>

\* C24: the result of parse is that of the first strategy, in the order
\* keyword, last N days, from X to Y, ISO pair, dateparser, that produces
\* one, a "desde X hasta Y" whose X or Y is no date producing none; when no
\* strategy produces one the result is the failure.
C24_FirstStrategyWins ==
    unit.call.op = "parse" =>
        /\ \A n \in 1..5 :
              (Strategies[n] # NoMatch /\ \A m \in 1..(n - 1) : Strategies[m] = NoMatch)
                 => unit.call.result = Strategies[n]
        /\ (\A n \in 1..5 : Strategies[n] = NoMatch)
              => unit.call.result = DateParseResult(FALSE, NoDate, NoDate, "No pude entender")

\* "desde xyz hasta 2024-02-01 2024-02-05": the from-to pattern matches, xyz
\* is no date, and the ISO pair gives the result
C24_Witness ==
    /\ unit.call.op = "parse"
    /\ FromToAt(Strip(Lower(unit.call.text))) # {}
    /\ Strategies[3] = NoMatch
    /\ unit.call.result = Strategies[4]
    /\ unit.call.result.success

\* ---------------------------------------------------------------------------
\* TanaDataProvider.is_parent_note (tana_client.py).  A title is the sequence
\* of its pieces: a name, a date, the separator " - ", white space, or one of
\* the markup tags "<u>" and "</u>".
\* ---------------------------------------------------------------------------

\* the longest breadcrumb
MaxDepth == 3

IGNORED_HEADERS ==
    {"Daily Preparation", "Action: Plan for Today", "Inbox", "Agenda", "Tasks", "Notes"}

\* pieces matched by \d{4}-\d{2}-\d{2}
DatePieces == {"2024-02-01"}

\* pieces matched by \w+
WordPieces == {"Thursday", "Inbox", "Agenda", "Tasks", "Notes", "inbox"}

\* re.match(r'^\d{4}-\d{2}-\d{2} - \w+$', parent): $ also matches before a
\* newline that ends the title
day_pattern(parent) ==
    /\ Len(parent) \in {3, 4}
    /\ parent[1] \in DatePieces
    /\ parent[2] = " - "
    /\ parent[3] \in WordPieces
    /\ Len(parent) = 4 => parent[4] = "\n"

\* parent.replace(piece, "")
replace(parent, piece) == SelectSeq(parent, LAMBDA p : p # piece)

\* parent.strip()
RECURSIVE strip(_)
strip(parent) ==
    IF parent = <<>> THEN parent
    ELSE IF Head(parent) \in {" ", "\n"} THEN strip(Tail(parent))
    ELSE IF parent[Len(parent)] \in {" ", "\n"}
         THEN strip(SubSeq(parent, 1, Len(parent) - 1))
    ELSE parent

clean_parent(parent) == strip(replace(replace(parent, "<u>"), "</u>"))

\* clean_parent in IGNORED_HEADERS
Ignored(parent) == clean_parent(parent) \in {<<h>> : h \in IGNORED_HEADERS}

\* the loop over reversed(note.breadcrumb)
RECURSIVE walk_parents(_)
walk_parents(parents) ==
    IF parents = <<>> THEN FALSE
    ELSE IF day_pattern(Head(parents)) THEN TRUE
    ELSE IF ~Ignored(Head(parents)) THEN FALSE
    ELSE walk_parents(Tail(parents))

\* is_parent_note that looks at the last title only
is_parent_note_last_only(breadcrumb) ==
    breadcrumb # <<>> /\ day_pattern(breadcrumb[Len(breadcrumb)])

is_parent_note(breadcrumb) ==
    IF breadcrumb = <<>> THEN FALSE
    ELSE walk_parents(Reversed(breadcrumb))

DayTitle == <<"2024-02-01", " - ", "Thursday">>

Titles ==
    {DayTitle,
     <<"2024-02-01", " - ", "Thursday", "\n">>,
     <<"<u>", "2024-02-01", " - ", "Thursday", "</u>">>,
     <<"2024-02-01">>,
     <<"Inbox">>,
     <<"Action: Plan for Today">>,
     <<"<u>", "Inbox", "</u>">>,
     <<" ", "Tasks", " ">>,
     <<"inbox">>,
     <<"Some Note">>,
     <<"Sub Note">>}

Breadcrumbs == UNION {[1..n -> Titles] : n \in 0..MaxDepth}

InitBreadcrumb ==
    /\ EngineInit
    /\ unit = [kind |-> "breadcrumb", call |-> NoCall]

\* TanaDataProvider.is_parent_note(note)
IsParentNote(breadcrumb) ==
    /\ unit.call = NoCall
    /\ unit' = [unit EXCEPT !.call =
                  [op |-> "is_parent_note", breadcrumb |-> breadcrumb,
                   result |-> is_parent_note(breadcrumb)]]
    /\ EngineFrame

\* the caller is done with the result
IsParentNoteDone ==
    /\ unit.call # NoCall
    /\ unit' = [unit EXCEPT !.call = NoCall]
    /\ EngineFrame

NextBreadcrumb ==
    \/ \E breadcrumb \in Breadcrumbs : IsParentNote(breadcrumb)
    \/ IsParentNoteDone

SpecBreadcrumb == InitBreadcrumb /\ [][NextBreadcrumb]_vars

\* the last title of the breadcrumb that is not skipped matches the day
\* pattern; FALSE when every title is skipped
LastKeptIsDay(breadcrumb, Skipped(_)) ==
    LET kept == {i \in DOMAIN breadcrumb : ~Skipped(breadcrumb[i])} IN
    /\ kept # {}
    /\ day_pattern(breadcrumb[CHOOSE i \in kept : \A j \in kept : j <= i])

\* the title is one of the header names, letter for letter
IsHeaderName(parent) == parent \in {<<h>> : h \in IGNORED_HEADERS}

FetchLists == {<<>>, <<"n1">>, <<"n1", "n2">>}

SyncIds == 1..MaxSessions

NoFetch == [outcome |-> "none", notes |-> <<>>]

InitSync ==
    /\ EngineInit
    /\ unit = [kind |-> "sync",
               tags_cache |-> FALSE,
               notes_cache |-> [exists |-> FALSE, notes |-> <<>>],
               session |-> [sid \in SyncIds |-> TelegramSession("u1", sid, 0, 0)],
               bg |-> [sid \in SyncIds |-> [pc |-> "none", fetch |-> NoFetch]]]

\* a task is between the answer of its last request and its notification
Classifying == \E sid \in SyncIds : unit.bg[sid].pc = "classify"

\* telegram_sync: the session is created, set to SYNCING and the task added
TelegramSync(sid, user) ==
    /\ ~Classifying
    /\ unit.bg[sid].pc = "none"
    /\ \A other \in SyncIds : other < sid => unit.bg[other].pc # "none"
    /\ unit' = [unit EXCEPT
                  !.session[sid] = set_state(TelegramSession(user, sid, 0, 0), "syncing", 0),
                  !.bg[sid].pc = "scheduled"]
    /\ EngineFrame

\* the task starts: get_session finds the session, sync_all posts /listTags
SyncAllStart(sid) ==
    /\ ~Classifying
    /\ unit.bg[sid].pc = "scheduled"
    /\ unit' = [unit EXCEPT !.bg[sid].pc = "fetch_tags"]
    /\ EngineFrame

\* the task starts: get_session returns None (expired or deleted meanwhile)
SessionNotFound(sid) ==
    /\ ~Classifying
    /\ unit.bg[sid].pc = "scheduled"
    /\ unit' = [unit EXCEPT !.bg[sid].pc = "done"]
    /\ EngineFrame

\* steps 2 and 3 up to session.set_state(CLASSIFYING), on the caches as u has
\* them: load_tags() and load_notes() raise when their file is missing
load_caches(u, sid) ==
    IF ~u.tags_cache \/ ~u.notes_cache.exists \/ u.notes_cache.notes = <<>>
    THEN [u EXCEPT !.session[sid] = set_state(@, "idle", 0),
                   !.bg[sid].pc = "done"]
    ELSE [u EXCEPT !.session[sid] =
                      set_state([@ EXCEPT !.notes = u.notes_cache.notes], "classifying", 0),
                   !.bg[sid].pc = "classify"]

\* /listTags answers: tags.json is written, sync_all posts /search
FetchTagsDone(sid) ==
    /\ ~Classifying
    /\ unit.bg[sid].pc = "fetch_tags"
    /\ unit' = [unit EXCEPT !.tags_cache = TRUE, !.bg[sid].pc = "fetch_notes"]
    /\ EngineFrame

\* /listTags fails: sync_all returns False, the task goes on
FetchTagsFailed(sid) ==
    /\ ~Classifying
    /\ unit.bg[sid].pc = "fetch_tags"
    /\ unit' = load_caches([unit EXCEPT !.bg[sid].fetch =
                               [outcome |-> "failed", notes |-> <<>>]], sid)
    /\ EngineFrame

\* /search answers: notes.json is written, sync_all returns True, the task
\* goes on
FetchNotesDone(sid, notes) ==
    /\ ~Classifying
    /\ unit.bg[sid].pc = "fetch_notes"
    /\ unit' = load_caches([unit EXCEPT
                               !.notes_cache = [exists |-> TRUE, notes |-> notes],
                               !.bg[sid].fetch = [outcome |-> "ok", notes |-> notes]],
                           sid)
    /\ EngineFrame

\* /search fails: sync_all returns False, the task goes on
FetchNotesFailed(sid) ==
    /\ ~Classifying
    /\ unit.bg[sid].pc = "fetch_notes"
    /\ unit' = load_caches([unit EXCEPT !.bg[sid].fetch =
                               [outcome |-> "failed", notes |-> <<>>]], sid)
    /\ EngineFrame

\* the loop over the notes, then session.set_state(REVIEWING)
Classified(sid) ==
    /\ unit.bg[sid].pc = "classify"
    /\ \E suggestions \in SuggestionLists :
          LET notes == unit.session[sid].notes IN
          unit' = [unit EXCEPT
                     !.session[sid] =
                         set_state([@ EXCEPT !.suggestions =
                                       [n \in {notes[i] : i \in DOMAIN notes}
                                           |-> suggestions]],
                                   "reviewing", 0),
                     !.bg[sid].pc = "done"]
    /\ EngineFrame

\* get_classifier, load_tags or classify raises: session.set_state(IDLE)
ClassifyRaised(sid) ==
    /\ unit.bg[sid].pc = "classify"
    /\ unit' = [unit EXCEPT !.session[sid] = set_state(@, "idle", 0),
                            !.bg[sid].pc = "done"]
    /\ EngineFrame

NextSync ==
    \/ \E sid \in SyncIds, user \in Users : TelegramSync(sid, user)
    \/ \E sid \in SyncIds : SyncAllStart(sid)
    \/ \E sid \in SyncIds : SessionNotFound(sid)
    \/ \E sid \in SyncIds : FetchTagsDone(sid)
    \/ \E sid \in SyncIds : FetchTagsFailed(sid)
    \/ \E sid \in SyncIds, notes \in FetchLists : FetchNotesDone(sid, notes)
    \/ \E sid \in SyncIds : FetchNotesFailed(sid)
    \/ \E sid \in SyncIds : Classified(sid)
    \/ \E sid \in SyncIds : ClassifyRaised(sid)

SpecSync == InitSync /\ [][NextSync]_vars

\* C26: a session is in Classifying only if the fetch of its own sync
\* completed successfully, and its notes are the ones that fetch returned.
C26_ClassifyingAfterOwnFetch ==
    \A sid \in SyncIds :
        unit.session[sid].state = "classifying" =>
            /\ unit.bg[sid].fetch.outcome = "ok"
            /\ unit.session[sid].notes = unit.bg[sid].fetch.notes

\* ---------------------------------------------------------------------------
\* Claims about the engine (Spec), continued
\* ---------------------------------------------------------------------------

\* C27: in every reachable state, every note of a session that is in
\* Reviewing has an entry in the session's suggestions (which may be the empty
\* list).
C27_ReviewingNotesScored ==
    \A sid \in SessionIds :
        heap[sid].state = "reviewing" =>
            \A i \in DOMAIN heap[sid].notes :
                heap[sid].notes[i] \in DOMAIN heap[sid].suggestions

\* a session is in Reviewing with two notes, one of them with no suggestion
C27_Witness ==
    \E sid \in SessionIds :
        /\ heap[sid].state = "reviewing"
        /\ Len(heap[sid].notes) = 2
        /\ \E n \in DOMAIN heap[sid].suggestions : heap[sid].suggestions[n] = <<>>

\* ---------------------------------------------------------------------------
\* Applying a session (api.py apply_telegram_suggestions, telegram_bot.py
\* _handle_toggle and _handle_apply) on one session under review.  The clock
\* stands still, so the session does not expire.
\* ---------------------------------------------------------------------------

\* TelegramApplyRequest.approved: note_id -> tag_id
ApplyRequests ==
    UNION {[notes -> TagIds] : notes \in SUBSET NoteIds}

\* the suggestions a note can have at review
ReviewSuggestions == {<<>>, <<"t1">>, <<"t2", "t1">>}

InitApply ==
    /\ EngineInit
    /\ \E suggestions \in [NoteIds -> ReviewSuggestions] :
          unit = [kind |-> "apply",
                  session |-> set_state([TelegramSession("u1", 1, 0, 0) EXCEPT
                                            !.notes = <<"n1", "n2">>,
                                            !.suggestions = suggestions],
                                        "reviewing", 0),
                  registered |-> TRUE,
                  call |-> NoCall]

\* callback "toggle:<note_id>"
HandleToggle(note_id) ==
    /\ unit.registered
    /\ LET session == unit.session
           suggestions == DictGet(session.suggestions, note_id, <<>>) IN
       unit' = [unit EXCEPT
                  !.session =
                      IF is_approved(session, note_id)
                      THEN unapprove_note(session, note_id, 0)
                      ELSE IF suggestions # <<>>
                      THEN approve_suggestion(session, note_id, suggestions[1], 0)
                      ELSE session,
                  !.call = [op |-> "toggle"]]
    /\ EngineFrame

\* callback "apply"
HandleApply ==
    /\ unit.registered
    /\ unit' = [unit EXCEPT
                  !.session = IF Cardinality(DOMAIN @.approved) = 0 THEN @
                              ELSE set_state(@, "applying", 0),
                  !.call = [op |-> "handle_apply"]]
    /\ EngineFrame

\* POST /telegram/apply/{session_id} with request.approved = approved
ApplyTelegramSuggestions(approved) ==
    /\ unit.registered
    /\ unit' = [unit EXCEPT
                  !.session = set_state(@, "applying", 0),
                  !.registered = FALSE,
                  !.call = [op |-> "apply_telegram_suggestions",
                            applied |-> approved,
                            applied_count |-> Cardinality(DOMAIN approved)]]
    /\ EngineFrame

NextApply ==
    \/ \E note_id \in NoteIds : HandleToggle(note_id)
    \/ HandleApply
    \/ \E approved \in ApplyRequests : ApplyTelegramSuggestions(approved)

SpecApply == InitApply /\ [][NextApply]_vars

\* C28: when a session is applied, the (note, label) pairs applied are the
\* session's approved map and the applied count reported is its approved
\* count.
C28_AppliedIsSessionApproved ==
    unit.call.op = "apply_telegram_suggestions" =>
        /\ unit.call.applied = unit.session.approved
        /\ unit.call.applied_count = get_approved_count(unit.session)

\* C29: cleanup_expired removes from both indices exactly the sessions that
\* are expired when it is called, returns their number, leaves every other
\* session and its index entry as they were, and no expired session remains
\* registered afterwards.
C29_SweepRemovesExactlyExpired ==
    [][last'.op = "cleanup_expired" =>
          LET expired == {sid \in Sessions : is_expired(heap[sid], now)}
              live == Sessions \ expired IN
          /\ session_manager'.sessions = live
          /\ \A user \in Users :
                session_manager'.user_sessions[user] =
                    IF UserIndex[user] \in expired THEN NoSession ELSE UserIndex[user]
          /\ last'.removed = Cardinality(expired)
          /\ \A sid \in live : heap'[sid] = heap[sid]
          /\ \A sid \in session_manager'.sessions : ~is_expired(heap'[sid], now')]_vars

\* a sweep has removed one session and kept another
C29_Witness ==
    /\ last.op = "cleanup_expired"
    /\ last.removed = 1
    /\ Cardinality(Sessions) = 1

RECURSIVE SumOf(_)
SumOf(counts) ==
    IF DOMAIN counts = {} THEN 0
    ELSE LET k == CHOOSE x \in DOMAIN counts : TRUE
         IN counts[k] + SumOf([x \in DOMAIN counts \ {k} |-> counts[x]])

\* C30: get_stats reports the sessions that are not expired when it is
\* called: total_sessions is their number, the counts by state add up to it,
\* and unique_users is the number of their distinct owners, which is the same
\* number.
C30_StatsOfLiveSessions ==
    [][last'.op = "get_stats" =>
          LET live == {sid \in Sessions : ~is_expired(heap[sid], now)}
              stats == last'.stats IN
          /\ stats.total_sessions = Cardinality(live)
          /\ \A st \in DOMAIN stats.by_state :
                stats.by_state[st] = Cardinality({sid \in live : heap[sid].state = st})
          /\ SumOf(stats.by_state) = stats.total_sessions
          /\ stats.unique_users = Cardinality({heap[sid].user_id : sid \in live})
          /\ stats.unique_users = stats.total_sessions]_vars

\* statistics were asked for while an expired session was registered next to
\* a live one: one session is reported
C30_Witness ==
    /\ last.op = "get_stats"
    /\ last.stats.total_sessions = 1
    /\ \E sid \in SessionIds \ Sessions :
          /\ heap[sid].state = "collected"
          /\ \E other \in Sessions : heap[other].user_id # heap[sid].user_id

\* ---------------------------------------------------------------------------
\* The registry called from one thread, one call at a time (session_manager.py
\* create_session, delete_session), with any identifier passed to
\* delete_session.
\* ---------------------------------------------------------------------------

InitRegistry ==
    /\ EngineInit
    /\ unit = [kind |-> "registry", call |-> NoCall]

\* session_manager.create_session(user_id, username)
RegistryCreate(user) ==
    /\ Len(heap) < MaxSessions
    /\ LET sid == Len(heap) + 1 IN
        /\ heap' = Append(heap, TelegramSession(user, sid, now, now))
        /\ session_manager' = create_session(session_manager, user, sid)
        /\ unit' = [unit EXCEPT !.call =
                       [op |-> "create_session", sid |-> sid, result |-> TRUE,
                        before |-> session_manager]]
    /\ UNCHANGED <<now, tasks, loop, callers, last>>

\* session_manager.delete_session(session_id)
RegistryDelete(sid) ==
    /\ session_manager' = delete_session(session_manager, sid)
    /\ unit' = [unit EXCEPT !.call =
                   [op |-> "delete_session", sid |-> sid,
                    result |-> delete_session_result(session_manager, sid),
                    before |-> session_manager]]
    /\ UNCHANGED <<now, heap, tasks, loop, callers, last>>

NextRegistry ==
    \/ Tick
    \/ \E user \in Users : RegistryCreate(user)
    \/ \E sid \in 1..MaxSessions : RegistryDelete(sid)

SpecRegistry == InitRegistry /\ [][NextRegistry]_vars

\* C31: delete_session returns True exactly when the session was registered
\* when it was called; then the session is registered no more (a second
\* delete returns False), and on False the registry is as it was.
C31_DeleteReportsPresence ==
    unit.call.op = "delete_session" =>
        /\ unit.call.result = (unit.call.sid \in unit.call.before.sessions)
        /\ unit.call.sid \notin session_manager.sessions
        /\ ~unit.call.result => session_manager = unit.call.before

\* a session that was created and deleted is deleted a second time
C31_Witness ==
    /\ unit.call.op = "delete_session"
    /\ unit.call.sid \in DOMAIN heap
    /\ ~unit.call.result

\* ---------------------------------------------------------------------------
\* Claims about the classifier (SpecClassify), continued
\* ---------------------------------------------------------------------------

\* the loaded tags, other than tag i, whose similarity is above that of tag i
\* (strictly, or at least as high); nan is above nothing and below nothing
ScoredAbove(i, strictly) ==
    {j \in DOMAIN CallSimilarities \ {i} :
        /\ ~CallSimilarities[i].nan
        /\ ~CallSimilarities[j].nan
        /\ IF strictly THEN CallSimilarities[j].v > CallSimilarities[i].v
           ELSE CallSimilarities[j].v >= CallSimilarities[i].v}

\* C32: classify returns exactly the tags that are among the top_k highest
\* scoring of the vocabulary and score at least min_score: a tag that scores
\* at least min_score and has fewer than top_k other tags scoring as high is
\* returned, and a returned tag scores at least min_score and has fewer than
\* top_k tags scoring higher.
C32_ExactlyTopKAboveMin ==
    (Returned /\ unit.call.result.encoded) =>
        \A i \in DOMAIN unit.classifier.tags :
            LET tag == unit.classifier.tags[i]
                score == CallSimilarities[i] IN
            /\ (/\ AtLeast(score, unit.call.min_score)
                /\ Cardinality(ScoredAbove(i, FALSE)) < unit.call.top_k)
                  => Suggested(tag, score.v)
            /\ (\E n \in DOMAIN unit.call.result.suggestions :
                    unit.call.result.suggestions[n].tag = tag)
                  => /\ AtLeast(score, unit.call.min_score)
                     /\ Cardinality(ScoredAbove(i, TRUE)) < unit.call.top_k

\* ---------------------------------------------------------------------------
\* Claims about the date parser (SpecDates), continued
\* ---------------------------------------------------------------------------

\* C33: every successful result of parse has start_date <= end_date.
C33_StartNotAfterEnd ==
    (unit.call.op = "parse" /\ unit.call.result.success) =>
        unit.call.result.start_date <= unit.call.result.end_date

\* DateParseResult.days_back
days_back(result) ==
    IF result.start_date = NoDate \/ result.end_date = NoDate THEN 7
    ELSE result.end_date - result.start_date + 1

\* TanaDataProvider.get_search_query(days_back): the "created" condition
get_search_query(days) == [created |-> [last |-> days]]

\* the days a query "created in the last N days" put on the day clock can
\* cover, the day N days ago taken to be included
SearchWindow(query, clock) == (clock - query.created.last)..clock

\* C34: for every successful result with start_date <= end_date, the days
\* covered by the query built from its days_back, counted back from the
\* current date, include every day from start_date to end_date.
C34_WindowCoversInterval ==
    (/\ unit.call.op = "parse"
     /\ unit.call.result.success
     /\ unit.call.result.start_date <= unit.call.result.end_date) =>
        \A day \in unit.call.result.start_date..unit.call.result.end_date :
            day \in SearchWindow(get_search_query(days_back(unit.call.result)),
                                 unit.clock)

\* C35: parse("hoy") returns the date of the day on which it is called.
C35_TodayAtEachCall ==
    Parsed(Words(<<"hoy">>)) =>
        /\ unit.call.result.success
        /\ unit.call.result.start_date = unit.clock
        /\ unit.call.result.end_date = unit.clock

\* ---------------------------------------------------------------------------
\* Claims about the engine (Spec), continued
\* ---------------------------------------------------------------------------

\* C36: in every reachable state, each entry note -> label of a session's
\* approved dict has a non-empty list of suggestions for the note in the
\* session, and the label is the first of them; so a toggle of a note without
\* suggestions adds no approval.
C36_ApprovedIsTopSuggestion ==
    \A sid \in Objects :
        \A note_id \in DOMAIN heap[sid].approved :
            /\ note_id \in DOMAIN heap[sid].suggestions
            /\ heap[sid].suggestions[note_id] # <<>>
            /\ heap[sid].approved[note_id] = heap[sid].suggestions[note_id][1]

\* a note with two suggestions has been approved by a toggle, next to a note
\* that has none
C36_Witness ==
    /\ last.op = "approve_suggestion"
    /\ \E note_id \in DOMAIN heap[last.sid].approved :
          Len(heap[last.sid].suggestions[note_id]) = 2
    /\ \E note_id \in DOMAIN heap[last.sid].suggestions :
          heap[last.sid].suggestions[note_id] = <<>>

\* the event loop resumes a coroutine that is between two awaits: the apply
\* endpoint goes on to delete_session, the background task goes on with its
\* loop.  Nothing obliges a user to send a request or the clock to advance.
SpecLive ==
    /\ Spec
    /\ WF_vars(HttpApplyDone)
    /\ WF_vars(BgClassifyNote \/ BgClassifyFailed \/ BgReviewing)

\* C37: a registered session that is in Applying is eventually deleted or
\* back in Reviewing, with no further request of a user and no expiry needed.
C37_ApplyingEventuallyLeft ==
    \A sid \in 1..MaxSessions :
        (sid \in Sessions /\ heap[sid].state = "applying")
            ~> (sid \notin Sessions \/ heap[sid].state = "reviewing")

\* C38: once the clock has passed the expiry time of a session, no later
\* get_session or get_user_session returns that session.
C38_NeverReturnedOnceExpired ==
    \A sid \in 1..MaxSessions :
        []((/\ sid \in Objects
            /\ now > heap[sid].expires_at)
              => [](~(/\ last.op \in {"get_session", "get_user_session"}
                      /\ last.ret = sid)))

\* C39: a step that only reads (get_session, get_user_session, is_approved,
\* get_approved_count, get_stats), or changes nothing but the clock, leaves
\* every registered session that is not expired registered and with all its
\* fields as they were; a step that
\* creates or deletes a session of a user leaves the sessions and the index
\* entries of every other user as they were.
C39_ReadsAndOtherUsersUntouched ==
    [][/\ last'.op \in {"get_session", "get_user_session", "get_stats", "none"} =>
            \A sid \in Sessions :
                ~is_expired(heap[sid], now) =>
                    /\ sid \in session_manager'.sessions
                    /\ heap'[sid] = heap[sid]
       /\ (last'.op \in {"create", "delete_session", "cancel"} /\ last'.sid # NoSession) =>
            LET user_id == heap'[last'.sid].user_id IN
            /\ \A sid \in Sessions :
                  heap[sid].user_id # user_id =>
                      /\ sid \in session_manager'.sessions
                      /\ heap'[sid] = heap[sid]
            /\ \A user \in Users \ {user_id} :
                  session_manager'.user_sessions[user] = UserIndex[user]]_vars

\* a session has been created while a session of another user is registered
C39_Witness ==
    /\ last.op = "create"
    /\ \E sid \in Sessions : heap[sid].user_id # heap[last.sid].user_id

\* C40: no step creates, changes or removes a session of a user who fails the
\* allow-list check, or changes that user's entry in the user index.
C40_UnauthorizedChangesNothing ==
    [][\A user \in Users :
          ~is_authorized(user) =>
              /\ session_manager'.user_sessions[user] = UserIndex[user]
              /\ \A sid \in DOMAIN heap' :
                    heap'[sid].user_id = user =>
                        /\ sid \in SessionIds
                        /\ heap'[sid] = heap[sid]
                        /\ (sid \in session_manager'.sessions) = (sid \in Sessions)]_vars
====
